---- MODULE Spec2Model ----
(***************************************************************************)
(* Model of the ingestion pipeline and event aggregator of                 *)
(* Simple-SESH-Summary (src/data_processing.py): the record validator,     *)
(* the source loader, deduplication, consistency repair and the per-record *)
(* aggregation of Spotify streaming-history entries.                       *)
(*                                                                         *)
(* One entry of the history is a record with a fixed shape:                *)
(*   dict    FALSE for a JSON value that is not an object                  *)
(*   ts      the "ts" value: k is "absent" (no key), "nonstr" (a number),  *)
(*           "bad" (a string fromisoformat rejects), "naive" (a string     *)
(*           without UTC offset) or "aware" (a string ending in Z); t is   *)
(*           the instant it denotes, in ticks                              *)
(*   ms      the "ms_played" value: k is "absent", "nonnum" (the string    *)
(*           "x") or "num"; v is the number                                *)
(*   track, artist, album   the master_metadata_* values: k is "absent"    *)
(*           (no key), "null" (JSON null, Python None), "str" or "list"   *)
(*           (a JSON list, which is no hashable value); s the string, or   *)
(*           the text the list is rendered as                              *)
(*   skipped, offline       the flags                                      *)
(***************************************************************************)
EXTENDS Integers, Sequences, FiniteSets, TLC

VARIABLES
    pc,                 \* which stage of the run is in progress
    data,               \* validate_spotify_json: the batch under validation
    valid_entries,      \* validate_spotify_json: records that passed
    invalid_entries,    \* validate_spotify_json: records counted invalid
    is_valid,           \* validate_spotify_json: the value returned
    input_dir,          \* load_spotify_json_files: the directory and its files
    file_idx,           \* load_spotify_json_files: the file the loop is at
    all_entries,        \* load_spotify_data: the entries the generator yielded
    entries,            \* check_for_duplicates: its argument
    unique_entries,     \* check_for_duplicates: the dict, in insertion order
    duplicates,         \* check_for_duplicates: duplicates counted
    deduplicated_entries, \* check_for_duplicates: the list returned
    now,                \* the clock datetime.now() reads, in ticks
    fix_idx,            \* perform_data_consistency_checks: the entry the loop is at
    fixed_entries,      \* perform_data_consistency_checks: the list being built
    inconsistencies,    \* perform_data_consistency_checks: the Counter of fixes
    validated_entries,  \* load_spotify_data: the list returned
    run,                \* 1 in the first run of the pipeline, 2 in a run on its output
    first_output,       \* the list the first run returned
    min_milliseconds,   \* process_spotify_data: its argument
    min_year,           \* process_spotify_data: its argument, <<>> for None
    agg_idx,            \* process_spotify_data: the entry the first loop is at
    yearly,             \* year -> the six per-year tallies
    dates_set,          \* the dates played
    first_ts,           \* <<>> for None, or <<dt>>
    first_entry,        \* <<>> for None, or <<entry>>
    last_ts,
    last_entry,
    artist_set,
    album_set,
    track_set,
    artist_tracks,      \* artist -> set of tracks
    daily_counts,
    monthly_counts,
    weekday_counts,
    hour_counts,
    play_times,         \* the list of datetimes of the plays counted
    play_counted,
    skip_count,
    offline_count,
    track_skip_counts,
    otd_idx,            \* process_spotify_data: the entry the second loop is at
    date_to_tracks,     \* mmdd -> Counter of (track, date), in insertion order
    otd,                \* the on-this-day index that is dumped to otd_json
    all_data,           \* aggregate_yearly_data: the all-years tallies
    all_stats,          \* calculate_all_stats: the dict of statistics
    progress,           \* count_plays_from_directory: the steps reported
    error               \* <<>>, or <<the exception that left the run>>

valVars == <<data, valid_entries, invalid_entries, is_valid>>
loadVars == <<input_dir, file_idx, all_entries>>
dedupVars == <<entries, unique_entries, duplicates, deduplicated_entries>>
fixVars == <<fix_idx, fixed_entries, inconsistencies, validated_entries>>
runVars == <<run, first_output>>
mainVars == <<progress, error>>
\* the tuple process_entry takes and returns
accVars ==
    <<yearly, dates_set, first_ts, first_entry, last_ts, last_entry, artist_set,
      album_set, track_set, artist_tracks, daily_counts, monthly_counts,
      weekday_counts, hour_counts, play_times, play_counted, skip_count,
      offline_count, track_skip_counts>>
aggVars ==
    <<min_milliseconds, min_year, agg_idx, accVars, otd_idx, date_to_tracks, otd,
      all_data, all_stats>>
vars == <<pc, valVars, loadVars, dedupVars, now, fixVars, runVars, aggVars, mainVars>>

\* the variables outside one part of the program
notVal == <<loadVars, dedupVars, now, fixVars, runVars, aggVars, mainVars>>
notLoad == <<valVars, dedupVars, now, fixVars, runVars, aggVars, mainVars>>
notDedup == <<valVars, loadVars, now, fixVars, runVars, aggVars, mainVars>>
notFix == <<valVars, loadVars, dedupVars, runVars, aggVars, mainVars>>
notAgg == <<valVars, loadVars, dedupVars, now, fixVars, runVars, mainVars>>

-----------------------------------------------------------------------------
(* Values of an entry's fields *)

Ts(k, t) == [k |-> k, t |-> t]
NoTs == Ts("absent", 0)
Ms(v) == [k |-> "num", v |-> v]
NoMs == [k |-> "absent", v |-> 0]
BadMs == [k |-> "nonnum", v |-> 0]
NoKey == [k |-> "absent", s |-> ""]
Null == [k |-> "null", s |-> ""]
S(x) == [k |-> "str", s |-> x]
List(x) == [k |-> "list", s |-> x]

Entry(ts, ms, track, artist, album, skipped, offline) ==
    [dict |-> TRUE, ts |-> ts, ms |-> ms, track |-> track, artist |-> artist,
     album |-> album, skipped |-> skipped, offline |-> offline]

\* a JSON value that is not an object (a string, a number, a list)
NonDict ==
    [dict |-> FALSE, ts |-> NoTs, ms |-> NoMs, track |-> NoKey, artist |-> NoKey,
     album |-> NoKey, skipped |-> FALSE, offline |-> FALSE]

\* datetime.fromisoformat(ts.replace("Z", "+00:00")) succeeds
Parses(ts) == ts.k \in {"naive", "aware"}

-----------------------------------------------------------------------------
(* validate_spotify_json *)

\* one iteration of the validation loop: does the entry reach `valid_entries += 1`
EntryValid(entry) ==
    /\ entry.dict
    /\ entry.ts.k # "absent" /\ entry.ms.k # "absent"
    /\ entry.ts.k # "nonstr"
    /\ Parses(entry.ts)
    /\ entry.ms.k = "num" /\ entry.ms.v >= 0

\* does the iteration execute `invalid_entries += 1` (a non-string ts does not)
EntryCountedInvalid(entry) ==
    /\ ~EntryValid(entry)
    /\ ~(entry.dict /\ entry.ts.k = "nonstr" /\ entry.ms.k # "absent")

RECURSIVE CountValid(_)
CountValid(d) ==
    IF d = <<>> THEN 0
    ELSE CountValid(Tail(d)) + (IF EntryValid(Head(d)) THEN 1 ELSE 0)

RECURSIVE CountInvalid(_)
CountInvalid(d) ==
    IF d = <<>> THEN 0
    ELSE CountInvalid(Tail(d)) + (IF EntryCountedInvalid(Head(d)) THEN 1 ELSE 0)

\* valid_percentage >= 70.0 with valid_percentage = (valid / total) * 100;
\* the float evaluation agrees with the exact one for every total below 3000
ThresholdStrict(valid, total) == valid * 100 > 70 * total
Threshold(valid, total) == valid * 100 >= 70 * total

validate_spotify_json(d) ==
    IF d = <<>> THEN FALSE ELSE Threshold(CountValid(d), Len(d))

-----------------------------------------------------------------------------
(* load_spotify_json_files: a file is [k, d] with k "unparseable" (json.load   *)
(* raises JSONDecodeError), "notlist" (valid JSON that is no list, so the      *)
(* validator raises ValueError) or "list" (d is the list of entries)           *)

File(k, d) == [k |-> k, d |-> d]

\* the file gets past json.load and validate_spotify_json
FileAccepted(f) == f.k = "list" /\ validate_spotify_json(f.d)

\* an accepted file yielding only the records that pass the per-record checks
FileEntriesFiltered(f) == SelectSeq(f.d, EntryValid)

\* what an accepted file yields: `for entry in data: yield entry`
FileEntries(f) == f.d

-----------------------------------------------------------------------------
(* process_entry_for_deduplication and check_for_duplicates *)

\* str() of the value of a metadata field, as an f-string renders it
NameStr(name) == IF name.k = "null" THEN "None" ELSE name.s

\* entry.get(field, default) for a metadata field
GetName(name, default) == IF name.k = "absent" THEN S(default) ELSE name

\* f"{ts}" of entry.get("ts", "")
TsStr(ts) ==
    CASE ts.k = "absent" -> ""
      [] ts.k = "nonstr" -> ToString(ts.t)
      [] ts.k = "bad"    -> "bad"
      [] ts.k = "naive"  -> "T" \o ToString(ts.t)
      [] ts.k = "aware"  -> "T" \o ToString(ts.t) \o "Z"

\* f"{ms_played}" of entry.get("ms_played", 0)
MsStr(ms) ==
    CASE ms.k = "absent" -> "0"
      [] ms.k = "nonnum" -> "x"
      [] ms.k = "num"    -> ToString(ms.v)

\* entry_key = f"{ts}|{track}|{artist}|{ms_played}"
EntryKey(entry) ==
    TsStr(entry.ts) \o "|" \o NameStr(GetName(entry.track, "Unknown Track"))
        \o "|" \o NameStr(GetName(entry.artist, "Unknown Artist"))
        \o "|" \o MsStr(entry.ms)

\* `entry_key in unique_entries`; the dict is a sequence of [key, entry]
\* in insertion order
HasKey(u, key) == \E i \in 1..Len(u) : u[i].key = key

\* a version that stores the entry again under a key already present
DedupStepKeepLast(entry, u) ==
    IF ~entry.dict THEN [u |-> u, is_duplicate |-> FALSE]
    ELSE LET key == EntryKey(entry) IN
         IF HasKey(u, key)
         THEN [u |-> [i \in 1..Len(u) |->
                        IF u[i].key = key THEN [key |-> key, entry |-> entry]
                        ELSE u[i]],
               is_duplicate |-> TRUE]
         ELSE [u |-> Append(u, [key |-> key, entry |-> entry]),
               is_duplicate |-> FALSE]

\* process_entry_for_deduplication: entry.get on a value that is no dict
\* raises AttributeError, and the handler returns the dict as it was
process_entry_for_deduplication(entry, u) ==
    IF ~entry.dict THEN [u |-> u, is_duplicate |-> FALSE]
    ELSE LET key == EntryKey(entry) IN
         IF HasKey(u, key)
         THEN [u |-> u, is_duplicate |-> TRUE]
         ELSE [u |-> Append(u, [key |-> key, entry |-> entry]),
               is_duplicate |-> FALSE]

\* the loop of check_for_duplicates over es, from the state st
RECURSIVE DedupLoop(_, _)
DedupLoop(es, st) ==
    IF es = <<>> THEN st
    ELSE LET r == process_entry_for_deduplication(Head(es), st.u) IN
         DedupLoop(Tail(es),
                   [u |-> r.u,
                    duplicates |-> st.duplicates + (IF r.is_duplicate THEN 1 ELSE 0)])

\* list(unique_entries.values())
Values(u) == [i \in 1..Len(u) |-> u[i].entry]

check_for_duplicates(es) ==
    IF es = <<>> THEN <<>>
    ELSE Values(DedupLoop(es, [u |-> <<>>, duplicates |-> 0]).u)

-----------------------------------------------------------------------------
(* fix_entry_consistency and perform_data_consistency_checks                  *)
(*                                                                             *)
(* The body of fix_entry_consistency is five steps on fixed_entry, the copy    *)
(* of the entry, and on the Counter `inconsistencies`.  A step that raises an  *)
(* exception the inner handler does not catch ends the function in the outer   *)
(* handler, which returns the original entry; the Counter keeps what the       *)
(* earlier steps added to it.  A state of the body is [e, inc, raised].        *)

Cap == 24 * 60 * 60 * 1000

NoInconsistencies ==
    [excessive_playtime |-> 0, future_timestamp |-> 0, missing_artist |-> 0,
     missing_track |-> 0, missing_album |-> 0]

\* bool(value) of entry.get(field) for a metadata field
Truthy(name) == name.k = "list" \/ (name.k = "str" /\ name.s # "")

\* `if fixed_entry.get("ms_played", 0) > 24 * 60 * 60 * 1000`: comparing the
\* string "x" with an int raises TypeError
StepCap(st, now_) ==
    IF st.raised THEN st
    ELSE IF st.e.ms.k = "nonnum" THEN [st EXCEPT !.raised = TRUE]
    ELSE IF st.e.ms.k = "num" /\ st.e.ms.v > Cap
         THEN [st EXCEPT !.e.ms = Ms(Cap),
                         !.inc.excessive_playtime = @ + 1]
         ELSE st

\* `if "ts" in fixed_entry`: a value that is no string has no .replace
\* (AttributeError, not caught by the inner handler); fromisoformat raises
\* ValueError on a bad string, and comparing an offset-aware datetime with the
\* naive datetime.now() raises TypeError: both are caught and passed over
StepFuture(st, now_) ==
    IF st.raised THEN st
    ELSE CASE st.e.ts.k = "absent" -> st
           [] st.e.ts.k = "nonstr" -> [st EXCEPT !.raised = TRUE]
           [] st.e.ts.k = "bad"    -> st
           [] st.e.ts.k = "aware"  -> st
           [] st.e.ts.k = "naive"  ->
                IF st.e.ts.t > now_
                THEN [st EXCEPT !.e.ts = Ts("naive", now_),
                                !.inc.future_timestamp = @ + 1]
                ELSE st

\* missing artist but present track or album
StepArtist(st, now_) ==
    IF st.raised THEN st
    ELSE IF ~Truthy(st.e.artist) /\ (Truthy(st.e.track) \/ Truthy(st.e.album))
         THEN [st EXCEPT !.e.artist = S("Unknown Artist"),
                         !.inc.missing_artist = @ + 1]
         ELSE st

\* missing track but present artist
StepTrack(st, now_) ==
    IF st.raised THEN st
    ELSE IF ~Truthy(st.e.track) /\ Truthy(st.e.artist)
         THEN [st EXCEPT !.e.track = S("Unknown Track"),
                         !.inc.missing_track = @ + 1]
         ELSE st

\* an album fill that looks at the track instead of the artist
StepAlbumByTrack(st, now_) ==
    IF st.raised THEN st
    ELSE IF ~Truthy(st.e.album) /\ Truthy(st.e.track)
         THEN [st EXCEPT !.e.album = S("Unknown Album"),
                         !.inc.missing_album = @ + 1]
         ELSE st

\* missing album but present artist
StepAlbum(st, now_) ==
    IF st.raised THEN st
    ELSE IF ~Truthy(st.e.album) /\ Truthy(st.e.artist)
         THEN [st EXCEPT !.e.album = S("Unknown Album"),
                         !.inc.missing_album = @ + 1]
         ELSE st

Step(name, st, now_) ==
    CASE name = "cap"    -> StepCap(st, now_)
      [] name = "future" -> StepFuture(st, now_)
      [] name = "artist" -> StepArtist(st, now_)
      [] name = "track"  -> StepTrack(st, now_)
      [] name = "album"  -> StepAlbum(st, now_)

RECURSIVE RunSteps(_, _, _)
RunSteps(order, st, now_) ==
    IF order = <<>> THEN st
    ELSE RunSteps(Tail(order), Step(Head(order), st, now_), now_)

\* the steps of fix_entry_consistency taken in the given order: [entry, inc],
\* the entry returned and the Counter afterwards.  entry.copy() on a value
\* that is no dict raises before any step
FixInOrder(order, entry, inc, now_) ==
    IF ~entry.dict THEN [entry |-> entry, inc |-> inc, raised |-> TRUE]
    ELSE LET st == RunSteps(order, [e |-> entry, inc |-> inc, raised |-> FALSE], now_)
         IN [entry |-> IF st.raised THEN entry ELSE st.e,
             inc |-> st.inc,
             raised |-> st.raised]

\* the order the source applies the steps in
CodeOrder == <<"cap", "future", "artist", "track", "album">>

fix_entry_consistency(entry, inc, now_) == FixInOrder(CodeOrder, entry, inc, now_)

-----------------------------------------------------------------------------
(* The calendar.  An instant is a number of ticks; a tick is an hour of a     *)
(* calendar with HoursPerDay hours a day, DaysPerMonth days a month and        *)
(* MonthsPerYear months a year.  A datetime is [aware, t]: whether it carries  *)
(* a UTC offset, and the instant its fields denote.                            *)

HoursPerDay == 2
DaysPerMonth == 2
MonthsPerYear == 2

DaysPerYear == DaysPerMonth * MonthsPerYear
TicksPerYear == DaysPerYear * HoursPerDay

\* the instant of hour h of day d of month m of year y (m, d, h from 0)
At(y, m, d, h) == ((y * MonthsPerYear + m) * DaysPerMonth + d) * HoursPerDay + h

Year(t) == t \div TicksPerYear                                 \* dt.year
Month(t) == (t \div (DaysPerMonth * HoursPerDay)) % MonthsPerYear   \* dt.month
DateOf(t) == t \div HoursPerDay                                \* dt.date()
MonthDay(t) == DateOf(t) % DaysPerYear                         \* strftime("%m-%d")
Weekday(t) == DateOf(t) % 7                                    \* dt.weekday()
Hour(t) == t % HoursPerDay                                     \* dt.hour

Dt(aware, t) == [aware |-> aware, t |-> t]

\* datetime.fromisoformat(ts.replace("Z", "+00:00")) of a string that parses
ParseTs(ts) == Dt(ts.k = "aware", ts.t)

-----------------------------------------------------------------------------
(* Dictionaries and Counters as functions *)

EmptyDict == [x \in {} |-> 0]

Put(f, k, v) == [x \in DOMAIN f \cup {k} |-> IF x = k THEN v ELSE f[x]]
Get(f, k, default) == IF k \in DOMAIN f THEN f[k] ELSE default
Inc(f, k, n) == Put(f, k, Get(f, k, 0) + n)

\* the sequences that have x somewhere in p
Insert(p, x) ==
    { SubSeq(p, 1, i) \o <<x>> \o SubSeq(p, i + 1, Len(p)) : i \in 0..Len(p) }

InsertAll(ps, x) == UNION { Insert(p, x) : p \in ps }

\* the orders in which the keys of a dict can have been inserted
RECURSIVE KeyOrders(_)
KeyOrders(keys) ==
    IF keys = {} THEN {<<>>}
    ELSE LET k == CHOOSE k \in keys : TRUE IN InsertAll(KeyOrders(keys \ {k}), k)

-----------------------------------------------------------------------------
(* load_spotify_data as a whole *)

\* list(load_spotify_json_files(input_dir)) of a directory that exists
RECURSIVE load_spotify_json_files(_)
load_spotify_json_files(files) ==
    IF files = <<>> THEN <<>>
    ELSE (IF FileAccepted(Head(files)) THEN FileEntries(Head(files)) ELSE <<>>)
             \o load_spotify_json_files(Tail(files))

\* the loop of perform_data_consistency_checks
RECURSIVE FixLoop(_, _, _)
FixLoop(es, st, now_) ==
    IF es = <<>> THEN st
    ELSE LET r == fix_entry_consistency(Head(es), st.inc, now_)
         IN FixLoop(Tail(es), [fixed |-> Append(st.fixed, r.entry), inc |-> r.inc], now_)

perform_data_consistency_checks(es, now_) ==
    IF es = <<>> THEN <<>>
    ELSE FixLoop(es, [fixed |-> <<>>, inc |-> NoInconsistencies], now_).fixed

load_spotify_data(dir, now_) ==
    LET loaded == load_spotify_json_files(dir.files)
    IN IF loaded = <<>> THEN <<>>
       ELSE perform_data_consistency_checks(check_for_duplicates(loaded), now_)

-----------------------------------------------------------------------------
(* process_entry *)

\* the value the defaultdict `yearly` makes for a year it has not seen
NewYear ==
    [artist_counts |-> EmptyDict, artist_time |-> EmptyDict,
     track_counts |-> EmptyDict, track_time |-> EmptyDict,
     album_counts |-> EmptyDict, album_time |-> EmptyDict]

\* the accumulators as process_spotify_data creates them
NewAcc ==
    [yearly |-> EmptyDict, dates_set |-> {}, first_ts |-> <<>>,
     first_entry |-> <<>>, last_ts |-> <<>>, last_entry |-> <<>>,
     artist_set |-> {}, album_set |-> {}, track_set |-> {},
     artist_tracks |-> EmptyDict, daily_counts |-> EmptyDict,
     monthly_counts |-> EmptyDict, weekday_counts |-> EmptyDict,
     hour_counts |-> EmptyDict, play_times |-> <<>>, play_counted |-> 0,
     skip_count |-> 0, offline_count |-> 0, track_skip_counts |-> EmptyDict]

\* the entry gets past the guards at the head of process_entry: a value that
\* is no dict has no .get and "x" <= 0 raises (both end in the handler), a
\* missing, zero or negative ms_played and a missing ts return at once, a
\* falsy artist skips the body, and a ts that is no string has no .replace
ReachesBody(entry) ==
    /\ entry.dict
    /\ entry.ms.k = "num" /\ entry.ms.v > 0
    /\ entry.ts.k # "absent"
    /\ Truthy(entry.artist)
    /\ entry.ts.k # "nonstr"

\* the body from `y = yearly[year]` to the end, for an entry that reached it;
\* dt is the parsed timestamp, or datetime.now() when the parse failed
EntryBody(entry, min_ms, acc, dt) ==
    LET artist == entry.artist.s
        track == NameStr(GetName(entry.track, "Unknown Track")) \o " - " \o artist
        album == NameStr(GetName(entry.album, "Unknown Album")) \o " - " \o artist
        year == Year(dt.t)
        ms == entry.ms.v
        counted == ms > min_ms
        \* `y = yearly[year]` and `dates_set.add(dt.date())`
        touched == [acc EXCEPT !.yearly = IF year \in DOMAIN @ THEN @
                                          ELSE Put(@, year, NewYear),
                               !.dates_set = @ \cup {DateOf(dt.t)}]
        y == touched.yearly[year]
        isFirst == acc.first_ts = <<>> \/ dt.t < acc.first_ts[1].t
        isLast == acc.last_ts = <<>> \/ dt.t > acc.last_ts[1].t
    IN
    \* `dt < first_ts` between an offset-naive and an offset-aware datetime
    \* raises TypeError: the handler keeps what was done in place so far
    IF acc.first_ts # <<>> /\ acc.first_ts[1].aware # dt.aware THEN touched
    ELSE
    \* `artist_set.add(artist)` of an artist that is a list raises TypeError
    \* after the tallies of the play and of the skip
    IF entry.artist.k = "list"
    THEN [touched EXCEPT
            !.first_ts = IF isFirst THEN <<dt>> ELSE @,
            !.first_entry = IF isFirst THEN <<entry>> ELSE @,
            !.last_ts = IF isLast THEN <<dt>> ELSE @,
            !.last_entry = IF isLast THEN <<entry>> ELSE @,
            !.daily_counts = IF counted THEN Inc(@, DateOf(dt.t), 1) ELSE @,
            !.monthly_counts =
                IF counted THEN Inc(@, <<Year(dt.t), Month(dt.t)>>, 1) ELSE @,
            !.weekday_counts = IF counted THEN Inc(@, Weekday(dt.t), 1) ELSE @,
            !.hour_counts = IF counted THEN Inc(@, Hour(dt.t), 1) ELSE @,
            !.play_times = IF counted THEN Append(@, dt) ELSE @,
            !.play_counted = IF counted THEN @ + 1 ELSE @,
            !.offline_count = IF counted /\ entry.offline THEN @ + 1 ELSE @,
            !.skip_count = IF entry.skipped THEN @ + 1 ELSE @,
            !.track_skip_counts = IF entry.skipped THEN Inc(@, track, 1) ELSE @]
    ELSE
    [ yearly |->
        Put(touched.yearly, year,
            [artist_counts |-> IF counted THEN Inc(y.artist_counts, artist, 1)
                                          ELSE y.artist_counts,
             artist_time   |-> Inc(y.artist_time, artist, ms),
             track_counts  |-> IF counted THEN Inc(y.track_counts, track, 1)
                                          ELSE y.track_counts,
             track_time    |-> Inc(y.track_time, track, ms),
             album_counts  |-> IF counted THEN Inc(y.album_counts, album, 1)
                                          ELSE y.album_counts,
             album_time    |-> Inc(y.album_time, album, ms)]),
      dates_set |-> touched.dates_set,
      first_ts |-> IF isFirst THEN <<dt>> ELSE acc.first_ts,
      first_entry |-> IF isFirst THEN <<entry>> ELSE acc.first_entry,
      last_ts |-> IF isLast THEN <<dt>> ELSE acc.last_ts,
      last_entry |-> IF isLast THEN <<entry>> ELSE acc.last_entry,
      artist_set |-> acc.artist_set \cup {artist},
      album_set |-> acc.album_set \cup {album},
      track_set |-> acc.track_set \cup {track},
      artist_tracks |->
          Put(acc.artist_tracks, artist, Get(acc.artist_tracks, artist, {}) \cup {track}),
      daily_counts |-> IF counted THEN Inc(acc.daily_counts, DateOf(dt.t), 1)
                                  ELSE acc.daily_counts,
      monthly_counts |->
          IF counted THEN Inc(acc.monthly_counts, <<Year(dt.t), Month(dt.t)>>, 1)
                     ELSE acc.monthly_counts,
      weekday_counts |-> IF counted THEN Inc(acc.weekday_counts, Weekday(dt.t), 1)
                                    ELSE acc.weekday_counts,
      hour_counts |-> IF counted THEN Inc(acc.hour_counts, Hour(dt.t), 1)
                                 ELSE acc.hour_counts,
      play_times |-> IF counted THEN Append(acc.play_times, dt) ELSE acc.play_times,
      play_counted |-> IF counted THEN acc.play_counted + 1 ELSE acc.play_counted,
      skip_count |-> IF entry.skipped THEN acc.skip_count + 1 ELSE acc.skip_count,
      offline_count |-> IF counted /\ entry.offline THEN acc.offline_count + 1
                                                   ELSE acc.offline_count,
      track_skip_counts |-> IF entry.skipped THEN Inc(acc.track_skip_counts, track, 1)
                                           ELSE acc.track_skip_counts ]

process_entry(entry, min_ms, acc, now_) ==
    IF ~ReachesBody(entry) THEN acc
    ELSE EntryBody(entry, min_ms, acc,
                   IF Parses(entry.ts) THEN ParseTs(entry.ts) ELSE Dt(FALSE, now_))

-----------------------------------------------------------------------------
(* process_spotify_data *)

\* a first loop without the year filter
YearFilterOff(entry, my) == FALSE

\* the year filter of the first loop: `continue` when the ts parses to a year
\* below min_year; any exception on the way is passed over
YearFilterSkips(entry, my) ==
    /\ my # <<>>
    /\ entry.dict
    /\ Parses(entry.ts)
    /\ Year(entry.ts.t) < my[1]

\* one iteration of the first loop
AggStep(entry, min_ms, my, acc, now_) ==
    IF YearFilterSkips(entry, my) THEN acc
    ELSE process_entry(entry, min_ms, acc, now_)

\* `entry.get("ms_played", 0) > min_milliseconds` in the second loop raises:
\* the value is no dict, or ms_played is no number
OtdTestRaises(entry) == ~entry.dict \/ entry.ms.k = "nonnum"

\* the test is true
OtdTest(entry, min_ms) ==
    entry.dict /\ entry.ms.k = "num" /\ entry.ms.v > min_ms

\* `date_to_tracks[mmdd][(track, full_date)] += 1` on the insertion-ordered
\* dict of insertion-ordered Counters
CtrInc(ctr, track, date) ==
    IF \E i \in 1..Len(ctr) : ctr[i].track = track /\ ctr[i].date = date
    THEN [i \in 1..Len(ctr) |->
            IF ctr[i].track = track /\ ctr[i].date = date
            THEN [ctr[i] EXCEPT !.count = @ + 1] ELSE ctr[i]]
    ELSE Append(ctr, [track |-> track, date |-> date, count |-> 1])

DttInc(dtt, mmdd, track, date) ==
    IF \E i \in 1..Len(dtt) : dtt[i].mmdd = mmdd
    THEN [i \in 1..Len(dtt) |->
            IF dtt[i].mmdd = mmdd
            THEN [dtt[i] EXCEPT !.ctr = CtrInc(@, track, date)] ELSE dtt[i]]
    ELSE Append(dtt, [mmdd |-> mmdd, ctr |-> CtrInc(<<>>, track, date)])

\* one iteration of the second loop: [raised, dtt]; " -- " stands for the
\* dash of the f-string.  Here the timestamp is
\* read without a handler: a missing ts is a KeyError, a ts that is no string
\* an AttributeError, a string that does not parse a ValueError
OtdStep(entry, min_ms, my, dtt) ==
    IF OtdTestRaises(entry) THEN [raised |-> TRUE, dtt |-> dtt]
    ELSE IF ~OtdTest(entry, min_ms) THEN [raised |-> FALSE, dtt |-> dtt]
    ELSE IF ~Parses(entry.ts) THEN [raised |-> TRUE, dtt |-> dtt]
    ELSE IF my # <<>> /\ Year(entry.ts.t) < my[1] THEN [raised |-> FALSE, dtt |-> dtt]
    ELSE [raised |-> FALSE,
          dtt |-> DttInc(dtt, MonthDay(entry.ts.t),
                         NameStr(GetName(entry.track, "Unknown Track")) \o " -- "
                             \o NameStr(GetName(entry.artist, "Unknown Artist")),
                         DateOf(entry.ts.t))]

MoreThanTwice(c) == c.count > 2

\* the conversion of date_to_tracks to otd: every mmdd keeps its key, with the
\* list of the (track, date) pairs counted more than twice
OtdOf(dtt) ==
    [i \in 1..Len(dtt) |->
        [mmdd |-> dtt[i].mmdd, tracks |-> SelectSeq(dtt[i].ctr, MoreThanTwice)]]

RECURSIVE FirstLoop(_, _, _, _, _)
FirstLoop(es, min_ms, my, acc, now_) ==
    IF es = <<>> THEN acc
    ELSE FirstLoop(Tail(es), min_ms, my, AggStep(Head(es), min_ms, my, acc, now_), now_)

RECURSIVE SecondLoop(_, _, _, _)
SecondLoop(es, min_ms, my, st) ==
    IF es = <<>> \/ st.raised THEN st
    ELSE SecondLoop(Tail(es), min_ms, my, OtdStep(Head(es), min_ms, my, st.dtt))

\* the whole function: [raised, acc, otd]
process_spotify_data(es, min_ms, my, now_) ==
    LET acc == FirstLoop(es, min_ms, my, NewAcc, now_)
        st == SecondLoop(es, min_ms, my, [raised |-> FALSE, dtt |-> <<>>])
    IN [raised |-> st.raised, acc |-> acc,
        otd |-> IF st.raised THEN <<>> ELSE OtdOf(st.dtt)]

-----------------------------------------------------------------------------
(* aggregate_yearly_data *)

\* `for name, cnt in ydata[key].items(): all_data[key][name] = cnt`
MergeOverwrite(total, ctr) ==
    [name \in DOMAIN total \cup DOMAIN ctr |->
        IF name \in DOMAIN ctr THEN ctr[name] ELSE total[name]]

\* `for name, cnt in ydata[key].items(): all_data[key][name] += cnt`
MergeCounter(total, ctr) ==
    [name \in DOMAIN total \cup DOMAIN ctr |-> Get(total, name, 0) + Get(ctr, name, 0)]

\* the body of the loop over yearly.values()
MergeYear(all, ydata) ==
    [artist_counts |-> MergeCounter(all.artist_counts, ydata.artist_counts),
     artist_time |-> MergeCounter(all.artist_time, ydata.artist_time),
     track_counts |-> MergeCounter(all.track_counts, ydata.track_counts),
     track_time |-> MergeCounter(all.track_time, ydata.track_time),
     album_counts |-> MergeCounter(all.album_counts, ydata.album_counts),
     album_time |-> MergeCounter(all.album_time, ydata.album_time)]

RECURSIVE FoldYears(_, _, _)
FoldYears(yy, order, all) ==
    IF order = <<>> THEN all
    ELSE FoldYears(yy, Tail(order), MergeYear(all, yy[Head(order)]))

\* the whole function; order is the order of yearly.values(), the order in
\* which the years were first seen
aggregate_yearly_data(yy, order) == FoldYears(yy, order, NewYear)

-----------------------------------------------------------------------------
(* The statistics calculators of src/statistics.py.  A float is kept as the  *)
(* fraction [num, den] it is the quotient of; an optional value is <<>> for   *)
(* None or <<v>>.  The strings rendered for display (month, week and day      *)
(* names, durations as text) and the keys Counter.most_common picks among     *)
(* equal counts are not part of the model.                                    *)

Frac(n, d) == [num |-> n, den |-> d]

\* dict.update
Update(d, r) == [k \in DOMAIN d \cup DOMAIN r |-> IF k \in DOMAIN r THEN r[k] ELSE d[k]]

\* sorted(ctr.values(), reverse=True)
RECURSIVE SortedReverse(_)
SortedReverse(ctr) ==
    IF DOMAIN ctr = {} THEN <<>>
    ELSE LET k == CHOOSE k \in DOMAIN ctr : \A j \in DOMAIN ctr : ctr[j] <= ctr[k]
         IN <<ctr[k]>> \o SortedReverse([x \in DOMAIN ctr \ {k} |-> ctr[x]])

\* sorted(dates_set)
RECURSIVE Sorted(_)
Sorted(s) ==
    IF s = {} THEN <<>>
    ELSE LET x == CHOOSE x \in s : \A y \in s : x <= y IN <<x>> \o Sorted(s \ {x})

\* sum(ctr.values())
RECURSIVE SumValues(_)
SumValues(ctr) ==
    IF DOMAIN ctr = {} THEN 0
    ELSE LET k == CHOOSE k \in DOMAIN ctr : TRUE
         IN ctr[k] + SumValues([x \in DOMAIN ctr \ {k} |-> ctr[x]])

\* the count of ctr.most_common(1)[0], 0 for an empty Counter
MostCommonCount(ctr) ==
    IF DOMAIN ctr = {} THEN 0
    ELSE ctr[CHOOSE k \in DOMAIN ctr : \A j \in DOMAIN ctr : ctr[j] <= ctr[k]]

\* `next((i for i, n in enumerate(counts, start=1) if n < i), len(counts))`
\* on a list sorted in descending order
CutOver(counts) ==
    LET below == {i \in 1..Len(counts) : counts[i] < i}
    IN IF below = {} THEN Len(counts)
       ELSE CHOOSE i \in below : \A j \in below : i <= j

\* Eddington number and days needed for the next one
Eddington(counts) == IF counts # <<>> THEN CutOver(counts) ELSE 0

NextNeed(counts, edd) ==
    IF counts # <<>>
    THEN LET have == Cardinality({i \in 1..Len(counts) : counts[i] >= edd + 1})
         IN IF edd + 1 - have > 0 THEN edd + 1 - have ELSE 0
    ELSE 0

\* {y: sum(d["track_counts"].values())}
YearPlays(yy) == [y \in DOMAIN yy |-> SumValues(yy[y].track_counts)]

calculate_milestone_stats(daily, all, yy, monthly) ==
    LET counts == SortedReverse(daily)
        art_vals == SortedReverse(all.artist_counts)
        edd == Eddington(counts)
    IN [edd |-> edd,
        next_need |-> NextNeed(counts, edd),
        art_cut |-> IF art_vals # <<>> THEN CutOver(art_vals) ELSE 0,
        pop_year_plays |-> MostCommonCount(YearPlays(yy)),
        pop_mon_plays |-> MostCommonCount(monthly),
        day_plays |-> MostCommonCount(daily)]

\* the streak loop of calculate_pattern_stats: one pair of neighbouring dates
StreakStep(st, prev_day, next_day) ==
    LET consecutive == next_day = prev_day + 1
        curr == IF consecutive THEN st.curr_streak + 1 ELSE 1
        temp == IF consecutive THEN st.temp_start ELSE next_day
    IN IF curr > st.max_streak
       THEN [max_streak |-> curr, curr_streak |-> curr, streak_start |-> temp,
             streak_end |-> next_day, temp_start |-> temp]
       ELSE [st EXCEPT !.curr_streak = curr, !.temp_start = temp]

RECURSIVE StreakLoop(_, _, _)
StreakLoop(sorted_dates, i, st) ==
    IF i >= Len(sorted_dates) THEN st
    ELSE StreakLoop(sorted_dates, i + 1,
                    StreakStep(st, sorted_dates[i], sorted_dates[i + 1]))

Streak(sorted_dates) ==
    IF sorted_dates # <<>>
    THEN LET st == StreakLoop(sorted_dates, 1,
                       [max_streak |-> 1, curr_streak |-> 1,
                        streak_start |-> sorted_dates[1],
                        streak_end |-> sorted_dates[1],
                        temp_start |-> sorted_dates[1]])
         IN [max_streak |-> st.max_streak, streak_start |-> <<st.streak_start>>,
             streak_end |-> <<st.streak_end>>]
    ELSE [max_streak |-> 0, streak_start |-> <<>>, streak_end |-> <<>>]

\* the hiatus loop: one pair of neighbouring dates
HiatusStep(st, prev_day, next_day) ==
    LET gap == (next_day - prev_day) - 1
    IN IF gap > st.longest_hiatus
       THEN [longest_hiatus |-> gap, hiatus_start |-> <<prev_day + 1>>,
             hiatus_end |-> <<next_day - 1>>]
       ELSE st

RECURSIVE HiatusLoop(_, _, _)
HiatusLoop(sorted_dates, i, st) ==
    IF i >= Len(sorted_dates) THEN st
    ELSE HiatusLoop(sorted_dates, i + 1,
                    HiatusStep(st, sorted_dates[i], sorted_dates[i + 1]))

\* hi_start_str and hi_end_str hold the dates the code renders as text
Hiatus(sorted_dates) ==
    LET st == HiatusLoop(sorted_dates, 1,
                  [longest_hiatus |-> 0, hiatus_start |-> <<>>, hiatus_end |-> <<>>])
    IN [longest_hiatus |-> st.longest_hiatus, hi_start_str |-> st.hiatus_start,
        hi_end_str |-> st.hiatus_end]

\* weekday_counts[5] + weekday_counts[6], sum of weekday_counts[0..4], and
\* `weekend / weekday * 100 if weekday else 0`
Weekend(weekdays) == Get(weekdays, 5, 0) + Get(weekdays, 6, 0)
WeekdayPlays(weekdays) ==
    Get(weekdays, 0, 0) + Get(weekdays, 1, 0) + Get(weekdays, 2, 0)
        + Get(weekdays, 3, 0) + Get(weekdays, 4, 0)
RatioPct(weekend, weekday) ==
    IF weekday # 0 THEN Frac(weekend * 100, weekday) ELSE Frac(0, 1)

calculate_pattern_stats(dates, daily, weekdays, hours) ==
    LET sorted_dates == Sorted(dates)
        streak == Streak(sorted_dates)
        hiatus == Hiatus(sorted_dates)
    IN [max_streak |-> streak.max_streak,
        streak_start |-> streak.streak_start,
        streak_end |-> streak.streak_end,
        avg_plays |-> IF dates # {} THEN Frac(SumValues(daily), Cardinality(dates))
                                    ELSE Frac(0, 1),
        wd_count |-> MostCommonCount(weekdays),
        hour_count |-> MostCommonCount(hours),
        weekend |-> Weekend(weekdays),
        weekday |-> WeekdayPlays(weekdays),
        ratio_pct |-> RatioPct(Weekend(weekdays), WeekdayPlays(weekdays)),
        longest_hiatus |-> hiatus.longest_hiatus,
        hi_start_str |-> hiatus.hi_start_str,
        hi_end_str |-> hiatus.hi_end_str]

\* calculate_session_stats.  The datetimes of play_times are [aware, t] with
\* t counted in minutes here, the unit of the session gap.

SessionGap == 30        \* timedelta(minutes=30)

\* the list left as it is
Unsorted(times) == times

\* play_times.sort()
RECURSIVE SortTimes(_)
SortTimes(times) ==
    IF times = <<>> THEN <<>>
    ELSE LET i == CHOOSE i \in 1..Len(times) : \A j \in 1..Len(times) : times[i].t <= times[j].t
         IN <<times[i]>> \o SortTimes(SubSeq(times, 1, i - 1) \o SubSeq(times, i + 1, Len(times)))

\* comparing an offset-naive with an offset-aware datetime raises TypeError
SortRaises(times) == \E i, j \in 1..Len(times) : times[i].aware # times[j].aware

\* one iteration of `for t in play_times[1:]`
SessionStep(st, t) ==
    IF t.t - st.prev.t > SessionGap
    THEN [sessions |-> Append(st.sessions, <<st.start, st.prev>>), start |-> t, prev |-> t]
    ELSE [st EXCEPT !.prev = t]

RECURSIVE SessionLoop(_, _)
SessionLoop(times, st) ==
    IF times = <<>> THEN st ELSE SessionLoop(Tail(times), SessionStep(st, Head(times)))

\* the list of (start, end) pairs of a sorted list of datetimes
Sessions(times) ==
    IF times = <<>> THEN <<>>
    ELSE LET st == SessionLoop(Tail(times),
                       [sessions |-> <<>>, start |-> times[1], prev |-> times[1]])
         IN Append(st.sessions, <<st.start, st.prev>>)

\* durations of the sessions in minutes, their sum, and the first longest
Durations(sessions) == [i \in 1..Len(sessions) |-> sessions[i][2].t - sessions[i][1].t]

RECURSIVE SumSeq(_)
SumSeq(s) == IF s = <<>> THEN 0 ELSE Head(s) + SumSeq(Tail(s))

LongestIdx(durations) ==
    CHOOSE i \in 1..Len(durations) :
        /\ \A j \in 1..Len(durations) : durations[j] <= durations[i]
        /\ \A j \in 1..i - 1 : durations[j] < durations[i]

\* avg_str, long_str and long_date_str are kept as the seconds and the
\* datetime they render
SessionPart(times) ==
    IF SortRaises(times)
    THEN [num_sessions |-> 0, avg_str |-> 0, long_str |-> 0, long_date_str |-> <<>>]
    ELSE LET sessions == Sessions(SortTimes(times))
             durations == Durations(sessions)
             num_sessions == Len(sessions)
         IN [num_sessions |-> num_sessions,
             avg_str |-> IF num_sessions # 0
                         THEN (SumSeq(durations) * 60) \div num_sessions ELSE 0,
             long_str |-> IF durations # <<>>
                          THEN durations[LongestIdx(durations)] * 60 ELSE 0,
             long_date_str |-> IF durations # <<>>
                               THEN <<sessions[LongestIdx(durations)][1]>> ELSE <<>>]

\* skip rate and offline/online ratio
RatePart(counted, skips, offline) ==
    IF counted > 0
    THEN [online_count |-> counted - offline,
          skip_rate_pct |-> Frac(skips * 100, counted),
          offline_ratio_pct |-> Frac(offline * 100, counted)]
    ELSE [online_count |-> 0, skip_rate_pct |-> Frac(0, 1),
          offline_ratio_pct |-> Frac(0, 1)]

calculate_session_stats(times, counted, skips, offline) ==
    Update(Update(SessionPart(times), RatePart(counted, skips, offline)),
           [skip_count |-> skips, play_counted |-> counted, offline_count |-> offline])

\* calculate_basic_stats(first_ts, first_entry, last_ts, last_entry, dates_set)
\* with today the value of date.today(); first is first_ts, empty for None.
\* The four strings it renders are left out.
calculate_basic_stats(first, dates, today) ==
    IF first = <<>>
    THEN [days_since_first |-> 0, days_played |-> 0, pct_days |-> Frac(0, 1)]
    ELSE LET days_since_first == today - DateOf(first[1].t)
             days_played == Cardinality(dates)
         IN [days_since_first |-> days_since_first,
             days_played |-> days_played,
             pct_days |-> IF days_since_first > 0
                          THEN Frac(days_played * 100, days_since_first)
                          ELSE Frac(0, 1)]

\* a - b of two fractions, on the product of their denominators
FSub(a, b) == Frac(a.num * b.den - b.num * a.den, a.den * b.den)

DescendingValues(ctr) == SortedReverse(ctr)

\* sorted(ctr.values())
RECURSIVE SortedValues(_)
SortedValues(ctr) ==
    IF DOMAIN ctr = {} THEN <<>>
    ELSE LET k == CHOOSE k \in DOMAIN ctr : \A j \in DOMAIN ctr : ctr[k] <= ctr[j]
         IN <<ctr[k]>> \o SortedValues([x \in DOMAIN ctr \ {k} |-> ctr[x]])

\* sum((i + 1) * v for i, v in enumerate(vals)), from the position i (1-based)
RECURSIVE Weighted(_, _)
Weighted(vals, i) ==
    IF i > Len(vals) THEN 0 ELSE i * vals[i] + Weighted(vals, i + 1)

\* the Gini coefficient of the plays per artist
Gini(artist_counts) ==
    LET vals == SortedValues(artist_counts)
        n == Len(vals)
    IN IF n # 0 /\ SumSeq(vals) # 0
       THEN FSub(Frac(2 * Weighted(vals, 1), n * SumSeq(vals)), Frac(n + 1, n))
       ELSE Frac(0, 1)

\* calculate_track_stats(all_data, track_set, track_skip_counts); the rendered
\* strings and the name of the most skipped track are left out
calculate_track_stats(all, tracks, skips) ==
    LET total_ms == SumValues(all.track_time)
        total_plays == SumValues(all.track_counts)
        unique_tracks == Cardinality(tracks)
    IN [total_ms |-> total_ms,
        total_plays |-> total_plays,
        avg_play_ms |-> IF total_plays > 0 THEN Frac(total_ms, total_plays)
                        ELSE Frac(0, 1),
        unique_tracks |-> unique_tracks,
        unique_ratio_pct |-> IF total_plays > 0
                             THEN Frac(unique_tracks * 100, total_plays)
                             ELSE Frac(0, 1),
        skip_ct |-> MostCommonCount(skips),
        gini |-> Gini(all.artist_counts)]

\* calculate_personality_type.  The weights of the scores have one decimal:
\* a score is kept in tenths (1.7 is 17).

\* an integer and a number of tenths as fractions
N(x) == Frac(x, 1)
D(x) == Frac(x, 10)

\* comparisons of fractions with positive denominators
FLt(a, b) == a.num * b.den < b.num * a.den
FLe(a, b) == a.num * b.den <= b.num * a.den
FGt(a, b) == FLt(b, a)
FGe(a, b) == FLe(b, a)

\* max(1, x)
AtLeastOne(x) == IF x < 1 THEN 1 ELSE x

\* get_threshold_score without its `reverse` branch
ForwardScore(value, thresholds, reverse) ==
    CASE FGe(value, thresholds[3]) -> 3
      [] FGe(value, thresholds[2]) -> 2
      [] FGe(value, thresholds[1]) -> 1
      [] OTHER -> 0

get_threshold_score(value, thresholds, reverse) ==
    IF reverse
    THEN CASE FLe(value, thresholds[1]) -> 3
           [] FLe(value, thresholds[2]) -> 2
           [] FLe(value, thresholds[3]) -> 1
           [] OTHER -> 0
    ELSE CASE FGe(value, thresholds[3]) -> 3
           [] FGe(value, thresholds[2]) -> 2
           [] FGe(value, thresholds[1]) -> 1
           [] OTHER -> 0

\* `w if condition else 0`, w in tenths
Bonus(w, condition) == IF condition THEN w ELSE 0

\* the personality types in the order of the dict `scores`
PersonalityTypes ==
    <<"Explorer", "Loyalist", "Eclectic", "Focused", "Weekend Warrior",
      "Daily Listener", "Skipper", "Completionist", "Binge Listener",
      "Variety Seeker", "Mood Listener", "Deep Diver">>

\* the dict `scores`, in tenths
Scores(stats) ==
    LET unique_ratio == stats.unique_ratio_pct
        gini == stats.gini
        skip_rate == stats.skip_rate_pct
        weekend_ratio == stats.ratio_pct
        artists_count == N(stats.artists_count)
        one_hits_pct == stats.pct_one_hits
        total_plays == N(stats.total_plays)
        days_played == stats.days_played
        days_since_first == stats.days_since_first
        max_streak == N(stats.max_streak)
        tracks_count == N(stats.tracks_count)
        listening_frequency == Frac(days_played, AtLeastOne(days_since_first))
        artist_to_track_ratio ==
            Frac(stats.artists_count, AtLeastOne(stats.tracks_count))
        album_to_artist_ratio ==
            Frac(stats.albums_count, AtLeastOne(stats.artists_count))
        avg_play_minutes == Frac(stats.avg_play_ms.num, stats.avg_play_ms.den * 60000)
        plays_per_day == Frac(stats.total_plays, AtLeastOne(days_played))
        unique_ratio_thresholds == <<N(30), N(50), N(70)>>
        gini_thresholds == <<D(3), D(5), D(7)>>
        skip_rate_thresholds == <<N(15), N(30), N(45)>>
        weekend_ratio_thresholds == <<N(30), N(50), N(70)>>
        artists_count_thresholds == <<N(50), N(100), N(200)>>
        one_hits_thresholds == <<N(20), N(40), N(60)>>
        listening_frequency_thresholds == <<D(3), D(6), D(9)>>
        avg_play_minutes_thresholds == <<N(2), N(3), N(4)>>
        streak_thresholds == <<N(5), N(14), N(30)>>
    IN
    ("Explorer" :>
        get_threshold_score(unique_ratio, unique_ratio_thresholds, FALSE) * 17
        + get_threshold_score(gini, gini_thresholds, TRUE) * 17
        + get_threshold_score(artists_count, artists_count_thresholds, FALSE) * 15
        + get_threshold_score(one_hits_pct, one_hits_thresholds, FALSE) * 12
        + Bonus(10, FLt(artist_to_track_ratio, D(3)))
        + Bonus(15, FGt(unique_ratio, N(60))))
    @@ ("Loyalist" :>
        get_threshold_score(unique_ratio, unique_ratio_thresholds, TRUE) * 12
        + get_threshold_score(gini, gini_thresholds, FALSE) * 15
        + get_threshold_score(artists_count, artists_count_thresholds, TRUE) * 10
        + Bonus(10, FGt(album_to_artist_ratio, D(15))))
    @@ ("Eclectic" :>
        get_threshold_score(one_hits_pct, one_hits_thresholds, FALSE) * 15
        + get_threshold_score(artists_count, artists_count_thresholds, FALSE) * 12
        + get_threshold_score(unique_ratio, unique_ratio_thresholds, FALSE) * 10
        + Bonus(10, FGt(artist_to_track_ratio, D(7))))
    @@ ("Focused" :>
        get_threshold_score(one_hits_pct, one_hits_thresholds, TRUE) * 15
        + get_threshold_score(gini, gini_thresholds, FALSE) * 12
        + get_threshold_score(unique_ratio, unique_ratio_thresholds, TRUE) * 10
        + Bonus(10, FLt(tracks_count, N(200))))
    @@ ("Weekend Warrior" :>
        get_threshold_score(weekend_ratio, weekend_ratio_thresholds, FALSE) * 25
        + get_threshold_score(listening_frequency, listening_frequency_thresholds,
                              TRUE) * 15
        + Bonus(15, FLt(max_streak, N(5)))
        + Bonus(20, FGt(weekend_ratio, N(65)))
        + Bonus(15, days_played * 10 < days_since_first * 4))
    @@ ("Daily Listener" :>
        get_threshold_score(listening_frequency, listening_frequency_thresholds,
                            FALSE) * 15
        + get_threshold_score(weekend_ratio, weekend_ratio_thresholds, TRUE) * 8
        + get_threshold_score(max_streak, streak_thresholds, FALSE) * 7
        + Bonus(10, FGt(plays_per_day, N(8))))
    @@ ("Skipper" :>
        get_threshold_score(skip_rate, skip_rate_thresholds, FALSE) * 20
        + get_threshold_score(avg_play_minutes, avg_play_minutes_thresholds, TRUE) * 15
        + get_threshold_score(unique_ratio, unique_ratio_thresholds, FALSE) * 8
        + Bonus(10, FGt(total_plays, N(1000))))
    @@ ("Completionist" :>
        get_threshold_score(skip_rate, skip_rate_thresholds, TRUE) * 20
        + get_threshold_score(avg_play_minutes, avg_play_minutes_thresholds, FALSE) * 25
        + Bonus(15, FGt(album_to_artist_ratio, D(12)))
        + Bonus(15, FLt(gini, D(4)))
        + Bonus(20, FLt(skip_rate, N(10)))
        + Bonus(15, FGt(avg_play_minutes, D(45))))
    @@ ("Binge Listener" :>
        Bonus(20, FGt(max_streak, N(10)))
        + get_threshold_score(total_plays, <<N(500), N(1000), N(2000)>>, FALSE) * 15
        + Bonus(14, FGt(gini, D(6)))
        + Bonus(12, FGt(plays_per_day, N(10))))
    @@ ("Variety Seeker" :>
        get_threshold_score(artists_count, artists_count_thresholds, FALSE) * 15
        + get_threshold_score(one_hits_pct, one_hits_thresholds, FALSE) * 15
        + Bonus(17, FGt(artist_to_track_ratio, D(5)))
        + Bonus(15, FLt(gini, D(4))))
    @@ ("Mood Listener" :>
        get_threshold_score(skip_rate, skip_rate_thresholds, FALSE) * 16
        + Bonus(20, FGt(weekend_ratio, N(40)) /\ FLt(weekend_ratio, N(60)))
        + get_threshold_score(unique_ratio, unique_ratio_thresholds, FALSE) * 13
        + Bonus(20, FGt(listening_frequency, D(3)) /\ FLt(listening_frequency, D(7))))
    @@ ("Deep Diver" :>
        get_threshold_score(avg_play_minutes, avg_play_minutes_thresholds, FALSE) * 18
        + Bonus(25, FGt(album_to_artist_ratio, D(20)))
        + get_threshold_score(skip_rate, skip_rate_thresholds, TRUE) * 14
        + Bonus(20, FLt(artists_count, N(50)) /\ FGt(tracks_count, N(200)))
        + Bonus(15, FGt(gini, D(5)) /\ FLt(gini, D(7))))

\* the last type with the top score
TopTypeLast(scores) ==
    LET i == CHOOSE i \in 1..Len(PersonalityTypes) :
                 /\ \A j \in 1..Len(PersonalityTypes) :
                        scores[PersonalityTypes[j]] <= scores[PersonalityTypes[i]]
                 /\ \A j \in i + 1..Len(PersonalityTypes) :
                        scores[PersonalityTypes[j]] < scores[PersonalityTypes[i]]
    IN PersonalityTypes[i]

\* max(scores.items(), key=lambda x: x[1])[0]: the first type with the top score
TopType(scores) ==
    LET i == CHOOSE i \in 1..Len(PersonalityTypes) :
                 /\ \A j \in 1..Len(PersonalityTypes) :
                        scores[PersonalityTypes[j]] <= scores[PersonalityTypes[i]]
                 /\ \A j \in 1..i - 1 :
                        scores[PersonalityTypes[j]] < scores[PersonalityTypes[i]]
    IN PersonalityTypes[i]

\* sum(scores.values())
TotalScore(scores) == SumValues(scores)

\* the quotient without the factor 100
ShareOfTotal(score, total_score) == Frac(score, total_score)

\* (score / total_score) * 100
Percentage(score, total_score) == Frac(score * 100, total_score)

\* the dict `percentages`
Percentages(scores) ==
    LET total_score == TotalScore(scores)
    IN IF total_score > 0
       THEN [ptype \in DOMAIN scores |-> Percentage(scores[ptype], total_score)]
       ELSE [ptype \in DOMAIN scores |-> Frac(100, Cardinality(DOMAIN scores))]

\* personality_desc is the text that goes with personality_type
calculate_personality_type(stats) ==
    LET scores == Scores(stats)
    IN [personality_type |-> TopType(scores),
        personality_scores |-> scores,
        personality_percentages |-> Percentages(scores)]

-----------------------------------------------------------------------------
(* Bounds and input sets *)

MaxBatch == 10      \* longest batch of the two-record alphabet
MaxRich == 2        \* longest batch over every kind of record

GoodEntry == Entry(Ts("aware", 1), Ms(30000), S("X"), S("A"), S("L"), FALSE, FALSE)

\* one record for each way of failing a per-record check, and two that pass
ValRecs ==
    { GoodEntry,
      [GoodEntry EXCEPT !.ts = Ts("naive", 1), !.ms = Ms(0)],
      NonDict,
      [GoodEntry EXCEPT !.ts = NoTs],
      [GoodEntry EXCEPT !.ms = NoMs],
      [GoodEntry EXCEPT !.ts = Ts("nonstr", 1)],
      [GoodEntry EXCEPT !.ts = Ts("bad", 0)],
      [GoodEntry EXCEPT !.ms = Ms(-1)],
      [GoodEntry EXCEPT !.ms = BadMs] }

SeqsUpTo(S_, n) == UNION { [1..k -> S_] : k \in 0..n }

Batches ==
    SeqsUpTo({GoodEntry, NonDict}, MaxBatch) \cup SeqsUpTo(ValRecs, MaxRich)

MaxFiles == 3       \* most files in the input directory

OtherEntry == [GoodEntry EXCEPT !.ts = Ts("aware", 2), !.track = S("Y")]
BadTsEntry == [GoodEntry EXCEPT !.ts = Ts("bad", 0)]

FileKinds ==
    { File("unparseable", <<>>),
      File("notlist", <<>>),
      File("list", <<>>),
      File("list", <<GoodEntry>>),
      File("list", <<OtherEntry, BadTsEntry>>),
      File("list", <<OtherEntry, NonDict, GoodEntry, GoodEntry>>),
      File("list", <<BadTsEntry, OtherEntry, OtherEntry, OtherEntry, GoodEntry,
                     NonDict, GoodEntry, NonDict, OtherEntry, GoodEntry>>) }

Dirs ==
    { [exists |-> FALSE, files |-> <<>>] } \cup
    { [exists |-> TRUE, files |-> fs] : fs \in SeqsUpTo(FileKinds, MaxFiles) }

\* the files of the directories a whole run is started on: one that does not
\* parse, an empty list, a list of one play, a list the validator rejects, a
\* list it accepts with a value that is no dict, and a list it accepts with a
\* timestamp that does not parse
RunFiles ==
    { File("unparseable", <<>>),
      File("list", <<>>),
      File("list", <<GoodEntry>>),
      File("list", <<OtherEntry, BadTsEntry>>),
      File("list", <<OtherEntry, NonDict, GoodEntry, GoodEntry>>),
      File("list", <<GoodEntry, [GoodEntry EXCEPT !.ms = Ms(40000)], OtherEntry,
                     BadTsEntry>>) }

RunDirs ==
    { [exists |-> FALSE, files |-> <<>>] } \cup
    { [exists |-> TRUE, files |-> fs] : fs \in SeqsUpTo(RunFiles, MaxFiles) }

MaxDedupLen == 3    \* longest list handed to check_for_duplicates

\* GoodEntry, a record with its identity and other fields that differ, records
\* that differ from it in one field of the identity, one whose track is named
\* "Unknown Track", and a value that is no dict
DedupRecs ==
    { GoodEntry,
      [GoodEntry EXCEPT !.album = S("M"), !.skipped = TRUE],
      [GoodEntry EXCEPT !.ts = Ts("aware", 2)],
      [GoodEntry EXCEPT !.ms = Ms(40000)],
      [GoodEntry EXCEPT !.artist = S("B")],
      [GoodEntry EXCEPT !.track = NoKey],
      [GoodEntry EXCEPT !.track = NoKey, !.album = NoKey],
      [GoodEntry EXCEPT !.track = Null],
      [GoodEntry EXCEPT !.track = S("Unknown Track")],
      NonDict }

-----------------------------------------------------------------------------
(* The validator on its own *)

ValIdle ==
    /\ data = <<>>
    /\ valid_entries = 0
    /\ invalid_entries = 0
    /\ is_valid = FALSE

LoadIdle ==
    /\ input_dir = [exists |-> TRUE, files |-> <<>>]
    /\ file_idx = 1
    /\ all_entries = <<>>

DedupIdle ==
    /\ entries = <<>>
    /\ unique_entries = <<>>
    /\ duplicates = 0
    /\ deduplicated_entries = <<>>

NowStart == 3       \* the clock when the run starts
MaxNow == 4         \* the clock stops advancing here

FixIdle ==
    /\ fix_idx = 1
    /\ fixed_entries = <<>>
    /\ inconsistencies = NoInconsistencies
    /\ validated_entries = <<>>

MIN_MILLISECONDS == 20000

\* the accumulators of the aggregator, as a record
Acc ==
    [yearly |-> yearly, dates_set |-> dates_set, first_ts |-> first_ts,
     first_entry |-> first_entry, last_ts |-> last_ts, last_entry |-> last_entry,
     artist_set |-> artist_set, album_set |-> album_set, track_set |-> track_set,
     artist_tracks |-> artist_tracks, daily_counts |-> daily_counts,
     monthly_counts |-> monthly_counts, weekday_counts |-> weekday_counts,
     hour_counts |-> hour_counts, play_times |-> play_times,
     play_counted |-> play_counted, skip_count |-> skip_count,
     offline_count |-> offline_count, track_skip_counts |-> track_skip_counts]

AggStart ==
    /\ agg_idx = 1
    /\ yearly = EmptyDict
    /\ dates_set = {}
    /\ first_ts = <<>>
    /\ first_entry = <<>>
    /\ last_ts = <<>>
    /\ last_entry = <<>>
    /\ artist_set = {}
    /\ album_set = {}
    /\ track_set = {}
    /\ artist_tracks = EmptyDict
    /\ daily_counts = EmptyDict
    /\ monthly_counts = EmptyDict
    /\ weekday_counts = EmptyDict
    /\ hour_counts = EmptyDict
    /\ play_times = <<>>
    /\ play_counted = 0
    /\ skip_count = 0
    /\ offline_count = 0
    /\ track_skip_counts = EmptyDict
    /\ otd_idx = 1
    /\ date_to_tracks = <<>>
    /\ otd = <<>>
    /\ all_data = NewYear
    /\ all_stats = EmptyDict

AggIdle ==
    /\ min_milliseconds = MIN_MILLISECONDS
    /\ min_year = <<>>
    /\ AggStart

RunIdle ==
    /\ run = 1
    /\ first_output = <<>>

MainIdle ==
    /\ progress = <<>>
    /\ error = <<>>

\* every part of the program but one is in its state after construction
OthersIdle(part) ==
    /\ part = "agg" \/ AggIdle
    /\ part = "val" \/ ValIdle
    /\ part = "load" \/ LoadIdle
    /\ part \in {"dedup", "ingest", "agg"} \/ DedupIdle
    /\ part \in {"fix", "ingest"} \/ FixIdle
    /\ part \in {"fix", "ingest", "agg"} \/ now = NowStart
    /\ part = "ingest" \/ RunIdle
    /\ part = "main" \/ MainIdle

MaxFixLen == 2      \* longest list handed to perform_data_consistency_checks

MidNaive == Ts("naive", NowStart + 1)       \* future at the start, not at MaxNow
FutureNaive == Ts("naive", MaxNow + 1)
FutureAware == Ts("aware", MaxNow + 1)

\* a timestamp of every kind, durations under, at and over the cap, a
\* timestamp that is no string with a duration over the cap, the other
\* duration values, and the combinations of missing names
FixRecs ==
    { GoodEntry,
      [GoodEntry EXCEPT !.ts = FutureAware],
      [GoodEntry EXCEPT !.ts = MidNaive],
      [GoodEntry EXCEPT !.ts = FutureNaive],
      [GoodEntry EXCEPT !.ts = FutureNaive, !.ms = Ms(Cap + 1)],
      [GoodEntry EXCEPT !.ts = Ts("nonstr", 7), !.ms = Ms(Cap + 1)],
      [GoodEntry EXCEPT !.ts = Ts("bad", 0)],
      [GoodEntry EXCEPT !.ms = BadMs],
      [GoodEntry EXCEPT !.ms = NoMs, !.ts = NoTs],
      [GoodEntry EXCEPT !.ms = Ms(Cap)],
      [GoodEntry EXCEPT !.artist = NoKey, !.album = NoKey],
      [GoodEntry EXCEPT !.artist = Null, !.track = NoKey],
      [GoodEntry EXCEPT !.track = NoKey, !.album = Null],
      [GoodEntry EXCEPT !.artist = NoKey, !.track = NoKey, !.album = NoKey],
      NonDict }

MaxIngestLen == 2   \* longest list the pipeline is run on

IngestRecs ==
    { GoodEntry,
      [GoodEntry EXCEPT !.ms = Ms(Cap + 1)],
      [GoodEntry EXCEPT !.ms = Ms(100000000)],
      [GoodEntry EXCEPT !.track = Null],
      [GoodEntry EXCEPT !.track = NoKey],
      [GoodEntry EXCEPT !.ts = FutureNaive],
      [GoodEntry EXCEPT !.artist = NoKey, !.album = NoKey],
      NonDict }

MaxAggLen == 2      \* longest list of mixed entries handed to process_spotify_data
MaxYears == 4       \* the years of the lists with one play a year, from 2019 on
MaxRepeat == 3      \* how often the lists of one repeated entry repeat it

AggNow == At(2023, 0, 1, 0)

AggEntry == [GoodEntry EXCEPT !.ts = Ts("aware", At(2021, 1, 0, 1))]

\* a play, a skipped offline play of another track a day later, a play with
\* no artist, one with an offset-naive timestamp, one whose timestamp does
\* not parse, a short play without track name, a play of 2019, and a play
\* whose duration is no number, a skipped record with no play time, a short
\* play whose timestamp does not parse, and a play whose artist is a list
AggRecs ==
    { AggEntry,
      [AggEntry EXCEPT !.ms = Ms(0), !.skipped = TRUE],
      [AggEntry EXCEPT !.ts = Ts("aware", At(2021, 1, 1, 0)), !.track = S("Y"),
                       !.skipped = TRUE, !.offline = TRUE],
      [AggEntry EXCEPT !.artist = Null],
      [AggEntry EXCEPT !.ts = Ts("naive", At(2022, 0, 0, 0))],
      [AggEntry EXCEPT !.ts = Ts("bad", 0)],
      [AggEntry EXCEPT !.ms = Ms(10000), !.track = NoKey],
      [AggEntry EXCEPT !.ts = Ts("aware", At(2019, 0, 0, 0))],
      [AggEntry EXCEPT !.ms = BadMs],
      [AggEntry EXCEPT !.ts = Ts("bad", 0), !.ms = Ms(10000)],
      [AggEntry EXCEPT !.artist = List("x"), !.offline = TRUE] }

\* one play in each of the years from 2019 on
YearRecs ==
    { [AggEntry EXCEPT !.ts = Ts("aware", At(y, 0, 0, 0))] :
        y \in 2019..(2019 + MaxYears - 1) }

\* the lists with each of these plays once, in every order
YearLists ==
    { p \in [1..MaxYears -> YearRecs] : \A i, j \in 1..MaxYears : p[i] = p[j] => i = j }

RepeatLists == { [i \in 1..MaxRepeat |-> r] : r \in AggRecs }

AggLists == SeqsUpTo(AggRecs, MaxAggLen) \cup YearLists \cup RepeatLists

MinYears == {<<>>, <<2021>>}

MaxStatDays == 5    \* the days the histories handed to the calculators span
MaxDayPlays == 5    \* the most plays of one day in them
MaxPatternDays == 4 \* the days the histories with short plays span

\* the first of these days
StatsDay == DateOf(At(2021, 0, 0, 0))

\* the k-th play of day d: a play above the threshold, and a short, skipped
\* play of another track
PlayOn(d, k) ==
    [AggEntry EXCEPT !.ts = Ts("aware", (StatsDay + d) * HoursPerDay),
                     !.ms = Ms(30000 + k)]
ShortPlayOn(d) ==
    [AggEntry EXCEPT !.ts = Ts("aware", (StatsDay + d) * HoursPerDay), !.ms = Ms(10000),
                     !.track = S("Y"), !.skipped = TRUE]

\* the plays of day d: c plays above the threshold, or for c = -1 one short play
DayPlays(d, c) == IF c = -1 THEN <<ShortPlayOn(d)>> ELSE [k \in 1..c |-> PlayOn(d, k)]

\* the history that has p[i] plays on day i - 1
RECURSIVE ProfilePlays(_, _)
ProfilePlays(p, i) ==
    IF i > Len(p) THEN <<>> ELSE DayPlays(i - 1, p[i]) \o ProfilePlays(p, i + 1)

\* every multiset of daily counts, on consecutive days
CountProfiles ==
    { p \in SeqsUpTo(1..MaxDayPlays, MaxStatDays) :
        \A i \in 1..Len(p) - 1 : p[i] >= p[i + 1] }

\* days without play, with a short play only, with one play
DayProfiles == [1..MaxPatternDays -> {-1, 0, 1}]

StatsLists == { ProfilePlays(p, 1) : p \in CountProfiles \cup DayProfiles }

\* the clock of a run over a history: the hour of its last play, or AggNow
RunTimes(es) == {AggNow} \cup (IF es = <<>> THEN {} ELSE {es[Len(es)].ts.t})

MaxArtists == 4         \* most artists in artist_counts
MaxArtistPlays == 3     \* most plays of one artist

ArtistName(i) == "artist " \o ToString(i)

\* the plays per artist handed to calculate_track_stats: a count of zero is
\* taken too
ArtistCounters ==
    UNION { [{ArtistName(i) : i \in 1..n} -> 0..MaxArtistPlays] : n \in 0..MaxArtists }

MaxSessionPlays == 4    \* longest play_times handed to calculate_session_stats

\* minutes of the plays: 50 to 80 is a gap of exactly SessionGap, 80 to 111
\* a gap of one minute more
SessionMinutes == {0, 10, 45, 50, 80, 111}

SessionLists == SeqsUpTo({Dt(TRUE, m) : m \in SessionMinutes}, MaxSessionPlays)

\* the statistics calculate_personality_type reads, and for each of them
\* values on either side of the limits the scores test
StatValues ==
    [unique_ratio_pct |-> {N(0), N(30), N(40), N(65), N(70), N(80)},
     gini |-> {D(2), Frac(45, 100), Frac(65, 100), D(8)},
     skip_rate_pct |-> {N(5), N(20), N(35), N(50)},
     ratio_pct |-> {N(0), N(35), N(50), N(70), N(100)},
     artists_count |-> {10, 60, 150, 250},
     pct_one_hits |-> {N(10), N(30), N(50), N(70)},
     avg_play_ms |-> {N(60000), N(150000), N(210000), N(300000)},
     total_plays |-> {100, 600, 1500, 2500},
     days_played |-> {1, 50, 100},
     days_since_first |-> {0, 100, 365},
     max_streak |-> {1, 7, 20, 40},
     tracks_count |-> {100, 300},
     albums_count |-> {20, 200}]

\* the statistics of an empty dict (the defaults of stats.get), a listener of
\* few artists, and one of many
BaseStats ==
    { [unique_ratio_pct |-> N(0), gini |-> N(0), skip_rate_pct |-> N(0),
       ratio_pct |-> N(0), artists_count |-> 0, pct_one_hits |-> N(0),
       avg_play_ms |-> N(0), total_plays |-> 0, days_played |-> 0,
       days_since_first |-> 1, max_streak |-> 0, tracks_count |-> 0,
       albums_count |-> 0],
      [unique_ratio_pct |-> N(0), gini |-> D(8), skip_rate_pct |-> N(5),
       ratio_pct |-> N(0), artists_count |-> 10, pct_one_hits |-> N(10),
       avg_play_ms |-> N(210000), total_plays |-> 600, days_played |-> 50,
       days_since_first |-> 100, max_streak |-> 7, tracks_count |-> 100,
       albums_count |-> 20],
      [unique_ratio_pct |-> N(80), gini |-> D(2), skip_rate_pct |-> N(50),
       ratio_pct |-> N(70), artists_count |-> 250, pct_one_hits |-> N(70),
       avg_play_ms |-> N(60000), total_plays |-> 2500, days_played |-> 100,
       days_since_first |-> 365, max_streak |-> 40, tracks_count |-> 300,
       albums_count |-> 200] }

\* the statistics that differ from one of these in at most two values
StatInputs ==
    { [b EXCEPT ![k[1]] = k[2], ![j[1]] = j[2]] :
        b \in BaseStats,
        k \in UNION { {<<key, v>> : v \in StatValues[key]} : key \in DOMAIN StatValues },
        j \in UNION { {<<key, v>> : v \in StatValues[key]} : key \in DOMAIN StatValues } }

InitValidate ==
    /\ pc = "validate"
    /\ data \in Batches
    /\ valid_entries = 0
    /\ invalid_entries = 0
    /\ is_valid = FALSE
    /\ OthersIdle("val")

\* `if not data: return False`
ValidateEmpty ==
    /\ pc = "validate"
    /\ data = <<>>
    /\ is_valid' = FALSE
    /\ pc' = "validated"
    /\ UNCHANGED <<data, valid_entries, invalid_entries, notVal>>

\* the loop over the batch and the threshold test
ValidateBatch ==
    /\ pc = "validate"
    /\ data # <<>>
    /\ valid_entries' = CountValid(data)
    /\ invalid_entries' = CountInvalid(data)
    /\ is_valid' = validate_spotify_json(data)
    /\ pc' = "validated"
    /\ UNCHANGED <<data, notVal>>

NextValidate == ValidateEmpty \/ ValidateBatch

SpecValidate == InitValidate /\ [][NextValidate]_vars

-----------------------------------------------------------------------------
(* The loader: load_spotify_json_files consumed by list() in load_spotify_data *)

InitLoad ==
    /\ pc = "load"
    /\ input_dir \in Dirs
    /\ file_idx = 1
    /\ all_entries = <<>>
    /\ OthersIdle("load")

\* `if not os.path.exists(input_dir): raise FileNotFoundError`
LoadMissingDir ==
    /\ pc = "load"
    /\ ~input_dir.exists
    /\ pc' = "raised"
    /\ UNCHANGED <<loadVars, notLoad>>

\* `if not json_files: return`
LoadNoFiles ==
    /\ pc = "load"
    /\ input_dir.exists
    /\ input_dir.files = <<>>
    /\ pc' = "loaded"
    /\ UNCHANGED <<loadVars, notLoad>>

\* json.load raises JSONDecodeError, or the validator raises ValueError:
\* the except clauses log and continue
LoadFileError ==
    /\ pc = "load"
    /\ input_dir.exists
    /\ file_idx <= Len(input_dir.files)
    /\ input_dir.files[file_idx].k # "list"
    /\ file_idx' = file_idx + 1
    /\ UNCHANGED <<pc, input_dir, all_entries, notLoad>>

\* `if not validate_spotify_json(data): continue`
LoadFileInvalid ==
    /\ pc = "load"
    /\ input_dir.exists
    /\ file_idx <= Len(input_dir.files)
    /\ input_dir.files[file_idx].k = "list"
    /\ ~validate_spotify_json(input_dir.files[file_idx].d)
    /\ file_idx' = file_idx + 1
    /\ UNCHANGED <<pc, input_dir, all_entries, notLoad>>

\* the file passed: every entry of it is yielded
LoadFileYield ==
    /\ pc = "load"
    /\ input_dir.exists
    /\ file_idx <= Len(input_dir.files)
    /\ FileAccepted(input_dir.files[file_idx])
    /\ all_entries' = all_entries \o FileEntries(input_dir.files[file_idx])
    /\ file_idx' = file_idx + 1
    /\ UNCHANGED <<pc, input_dir, notLoad>>

\* the loop over the files is exhausted
LoadDone ==
    /\ pc = "load"
    /\ input_dir.exists
    /\ input_dir.files # <<>>
    /\ file_idx > Len(input_dir.files)
    /\ pc' = "loaded"
    /\ UNCHANGED <<loadVars, notLoad>>

NextLoad ==
    \/ LoadMissingDir
    \/ LoadNoFiles
    \/ LoadFileError
    \/ LoadFileInvalid
    \/ LoadFileYield
    \/ LoadDone

SpecLoad == InitLoad /\ [][NextLoad]_vars

-----------------------------------------------------------------------------
(* Deduplication on its own *)

InitDedup ==
    /\ pc = "dedup"
    /\ entries \in SeqsUpTo(DedupRecs, MaxDedupLen)
    /\ unique_entries = <<>>
    /\ duplicates = 0
    /\ deduplicated_entries = <<>>
    /\ OthersIdle("dedup")

\* `if not entries: return []`
DedupEmpty ==
    /\ pc = "dedup"
    /\ entries = <<>>
    /\ deduplicated_entries' = <<>>
    /\ pc' = "deduped"
    /\ UNCHANGED <<entries, unique_entries, duplicates, notDedup>>

\* the loop over the entries and the list of the dict's values
Dedup ==
    /\ pc = "dedup"
    /\ entries # <<>>
    /\ LET st == DedupLoop(entries, [u |-> <<>>, duplicates |-> 0]) IN
        /\ unique_entries' = st.u
        /\ duplicates' = st.duplicates
    /\ deduplicated_entries' = check_for_duplicates(entries)
    /\ pc' = "deduped"
    /\ UNCHANGED <<entries, notDedup>>

NextDedup == DedupEmpty \/ Dedup

SpecDedup == InitDedup /\ [][NextDedup]_vars

-----------------------------------------------------------------------------
(* Consistency repair: perform_data_consistency_checks(deduplicated_entries) *)

InitFix ==
    /\ pc = "deduped"
    /\ entries = <<>>
    /\ unique_entries = <<>>
    /\ duplicates = 0
    /\ deduplicated_entries \in SeqsUpTo(FixRecs, MaxFixLen)
    /\ now = NowStart
    /\ FixIdle
    /\ OthersIdle("ingest")
    /\ RunIdle

\* `if not entries: return []`
FixEmpty ==
    /\ pc = "deduped"
    /\ deduplicated_entries = <<>>
    /\ validated_entries' = <<>>
    /\ pc' = "ingested"
    /\ UNCHANGED <<fix_idx, fixed_entries, inconsistencies, now, notFix>>

\* `fixed_entries = []; inconsistencies = Counter()`
FixBegin ==
    /\ pc = "deduped"
    /\ deduplicated_entries # <<>>
    /\ fix_idx' = 1
    /\ fixed_entries' = <<>>
    /\ inconsistencies' = NoInconsistencies
    /\ pc' = "fix"
    /\ UNCHANGED <<validated_entries, now, notFix>>

\* one iteration of the loop: fix the entry and append it
FixEntry ==
    /\ pc = "fix"
    /\ fix_idx <= Len(deduplicated_entries)
    /\ LET r == fix_entry_consistency(deduplicated_entries[fix_idx],
                                      inconsistencies, now) IN
        /\ fixed_entries' = Append(fixed_entries, r.entry)
        /\ inconsistencies' = r.inc
    /\ fix_idx' = fix_idx + 1
    /\ UNCHANGED <<pc, validated_entries, now, notFix>>

\* `return fixed_entries`
FixReturn ==
    /\ pc = "fix"
    /\ fix_idx > Len(deduplicated_entries)
    /\ validated_entries' = fixed_entries
    /\ pc' = "ingested"
    /\ UNCHANGED <<fix_idx, fixed_entries, inconsistencies, now, notFix>>

\* the clock advances while the loop runs
Tick ==
    /\ pc = "fix"
    /\ now < MaxNow
    /\ now' = now + 1
    /\ UNCHANGED <<pc, fixVars, notFix>>

NextFix == FixEmpty \/ FixBegin \/ FixEntry \/ FixReturn \/ Tick

SpecFix == InitFix /\ [][NextFix]_vars

-----------------------------------------------------------------------------
(* The pipeline of load_spotify_data on a non-empty list of entries, and a  *)
(* second run of it on the list the first run returned                       *)

InitIngest ==
    /\ pc = "dedup"
    /\ entries \in SeqsUpTo(IngestRecs, MaxIngestLen) \ {<<>>}
    /\ unique_entries = <<>>
    /\ duplicates = 0
    /\ deduplicated_entries = <<>>
    /\ now = NowStart
    /\ FixIdle
    /\ RunIdle
    /\ OthersIdle("ingest")

\* the second run on a non-empty output of the first
Rerun ==
    /\ pc = "ingested"
    /\ run = 1
    /\ validated_entries # <<>>
    /\ first_output' = validated_entries
    /\ run' = 2
    /\ entries' = validated_entries
    /\ unique_entries' = <<>>
    /\ duplicates' = 0
    /\ deduplicated_entries' = <<>>
    /\ pc' = "dedup"
    /\ UNCHANGED <<valVars, loadVars, now, fixVars, aggVars, mainVars>>

\* the second run on an empty output: `if not all_entries: return []`
RerunEmpty ==
    /\ pc = "ingested"
    /\ run = 1
    /\ validated_entries = <<>>
    /\ first_output' = validated_entries
    /\ run' = 2
    /\ entries' = <<>>
    /\ unique_entries' = <<>>
    /\ duplicates' = 0
    /\ deduplicated_entries' = <<>>
    /\ UNCHANGED <<pc, valVars, loadVars, now, fixVars, aggVars, mainVars>>

NextIngest ==
    \/ Dedup
    \/ FixEmpty
    \/ FixBegin
    \/ FixEntry
    \/ FixReturn
    \/ Tick
    \/ Rerun
    \/ RerunEmpty

SpecIngest == InitIngest /\ [][NextIngest]_vars

-----------------------------------------------------------------------------
(* The aggregator: process_spotify_data(entries, min_milliseconds, min_year) *)

InitAgg ==
    /\ pc = "agg"
    /\ entries \in AggLists
    /\ unique_entries = <<>>
    /\ duplicates = 0
    /\ deduplicated_entries = <<>>
    /\ min_milliseconds = MIN_MILLISECONDS
    /\ min_year \in MinYears
    /\ AggStart
    /\ now = AggNow
    /\ OthersIdle("agg")

\* one iteration of the first loop: the year filter, then process_entry
AggregateEntry ==
    /\ pc = "agg"
    /\ agg_idx <= Len(entries)
    /\ LET r == AggStep(entries[agg_idx], min_milliseconds, min_year, Acc, now) IN
        /\ yearly' = r.yearly
        /\ dates_set' = r.dates_set
        /\ first_ts' = r.first_ts
        /\ first_entry' = r.first_entry
        /\ last_ts' = r.last_ts
        /\ last_entry' = r.last_entry
        /\ artist_set' = r.artist_set
        /\ album_set' = r.album_set
        /\ track_set' = r.track_set
        /\ artist_tracks' = r.artist_tracks
        /\ daily_counts' = r.daily_counts
        /\ monthly_counts' = r.monthly_counts
        /\ weekday_counts' = r.weekday_counts
        /\ hour_counts' = r.hour_counts
        /\ play_times' = r.play_times
        /\ play_counted' = r.play_counted
        /\ skip_count' = r.skip_count
        /\ offline_count' = r.offline_count
        /\ track_skip_counts' = r.track_skip_counts
    /\ agg_idx' = agg_idx + 1
    /\ UNCHANGED <<pc, min_milliseconds, min_year, otd_idx, date_to_tracks, otd, all_data,
                   all_stats, notAgg>>

\* the first loop is exhausted: `date_to_tracks = defaultdict(Counter)`
AggregateDone ==
    /\ pc = "agg"
    /\ agg_idx > Len(entries)
    /\ date_to_tracks' = <<>>
    /\ otd_idx' = 1
    /\ pc' = "otd"
    /\ UNCHANGED <<min_milliseconds, min_year, agg_idx, accVars, otd, all_data, all_stats,
                   notAgg>>

\* one iteration of the second loop
OtdEntry ==
    /\ pc = "otd"
    /\ otd_idx <= Len(entries)
    /\ LET r == OtdStep(entries[otd_idx], min_milliseconds, min_year, date_to_tracks) IN
        /\ ~r.raised
        /\ date_to_tracks' = r.dtt
    /\ otd_idx' = otd_idx + 1
    /\ UNCHANGED <<pc, min_milliseconds, min_year, agg_idx, accVars, otd, all_data, all_stats,
                   notAgg>>

\* an iteration of the second loop raises, and with it process_spotify_data
OtdRaise ==
    /\ pc = "otd"
    /\ otd_idx <= Len(entries)
    /\ OtdStep(entries[otd_idx], min_milliseconds, min_year, date_to_tracks).raised
    /\ pc' = "raised"
    /\ UNCHANGED <<aggVars, notAgg>>

\* the second loop is exhausted: otd is built and the tuple returned
AggregateReturn ==
    /\ pc = "otd"
    /\ otd_idx > Len(entries)
    /\ otd' = OtdOf(date_to_tracks)
    /\ pc' = "aggregated"
    /\ UNCHANGED <<min_milliseconds, min_year, agg_idx, accVars, otd_idx,
                   date_to_tracks, all_data, all_stats, notAgg>>

\* aggregate_yearly_data(yearly) on the tallies process_spotify_data returned;
\* the dict is walked in the order its years were inserted, which the model
\* of yearly does not keep: every order is taken
AggregateYearly ==
    /\ pc = "aggregated"
    /\ \E order \in KeyOrders(DOMAIN yearly) :
        all_data' = aggregate_yearly_data(yearly, order)
    /\ pc' = "merged"
    /\ UNCHANGED <<min_milliseconds, min_year, agg_idx, accVars, otd_idx,
                   date_to_tracks, otd, all_stats, notAgg>>

NextAgg ==
    \/ AggregateEntry
    \/ AggregateDone
    \/ OtdEntry
    \/ OtdRaise
    \/ AggregateReturn
    \/ AggregateYearly

SpecAgg == InitAgg /\ [][NextAgg]_vars

-----------------------------------------------------------------------------
(* calculate_all_stats: the basic, milestone, pattern, session and track       *)
(* statistics in the order the function calls them, on what                    *)
(* process_spotify_data and aggregate_yearly_data return for a history.        *)
(* calculate_library_stats, called second, is not modelled.                    *)

InitStats ==
    /\ pc = "stats"
    /\ entries \in StatsLists
    /\ unique_entries = <<>>
    /\ duplicates = 0
    /\ deduplicated_entries = <<>>
    /\ min_milliseconds = MIN_MILLISECONDS
    /\ min_year = <<>>
    /\ now \in RunTimes(entries)
    /\ agg_idx = Len(entries) + 1
    /\ otd_idx = Len(entries) + 1
    /\ \E r \in {[acc |-> FirstLoop(entries, MIN_MILLISECONDS, <<>>, NewAcc, now)]},
          st \in {SecondLoop(entries, MIN_MILLISECONDS, <<>>,
                             [raised |-> FALSE, dtt |-> <<>>])} :
        /\ yearly = r.acc.yearly
        /\ dates_set = r.acc.dates_set
        /\ first_ts = r.acc.first_ts
        /\ first_entry = r.acc.first_entry
        /\ last_ts = r.acc.last_ts
        /\ last_entry = r.acc.last_entry
        /\ artist_set = r.acc.artist_set
        /\ album_set = r.acc.album_set
        /\ track_set = r.acc.track_set
        /\ artist_tracks = r.acc.artist_tracks
        /\ daily_counts = r.acc.daily_counts
        /\ monthly_counts = r.acc.monthly_counts
        /\ weekday_counts = r.acc.weekday_counts
        /\ hour_counts = r.acc.hour_counts
        /\ play_times = r.acc.play_times
        /\ play_counted = r.acc.play_counted
        /\ skip_count = r.acc.skip_count
        /\ offline_count = r.acc.offline_count
        /\ track_skip_counts = r.acc.track_skip_counts
        /\ date_to_tracks = st.dtt
        /\ otd = OtdOf(st.dtt)
        /\ all_data = aggregate_yearly_data(r.acc.yearly, Sorted(DOMAIN r.acc.yearly))
    /\ all_stats = EmptyDict
    /\ ValIdle
    /\ LoadIdle
    /\ FixIdle
    /\ RunIdle
    /\ MainIdle

\* today is date.today()
BasicStats ==
    /\ pc = "stats"
    /\ all_stats' = Update(all_stats,
           calculate_basic_stats(first_ts, dates_set, DateOf(now)))
    /\ pc' = "basic"
    /\ UNCHANGED <<min_milliseconds, min_year, agg_idx, accVars, otd_idx,
                   date_to_tracks, otd, all_data, notAgg>>

MilestoneStats ==
    /\ pc = "basic"
    /\ all_stats' = Update(all_stats,
           calculate_milestone_stats(daily_counts, all_data, yearly, monthly_counts))
    /\ pc' = "milestone"
    /\ UNCHANGED <<min_milliseconds, min_year, agg_idx, accVars, otd_idx,
                   date_to_tracks, otd, all_data, notAgg>>

PatternStats ==
    /\ pc = "milestone"
    /\ all_stats' = Update(all_stats,
           calculate_pattern_stats(dates_set, daily_counts, weekday_counts, hour_counts))
    /\ pc' = "pattern"
    /\ UNCHANGED <<min_milliseconds, min_year, agg_idx, accVars, otd_idx,
                   date_to_tracks, otd, all_data, notAgg>>

\* the function sorts play_times in place
SessionStats ==
    /\ pc = "pattern"
    /\ play_times' = IF SortRaises(play_times) THEN play_times ELSE SortTimes(play_times)
    /\ all_stats' = Update(all_stats,
           calculate_session_stats(play_times, play_counted, skip_count, offline_count))
    /\ pc' = "session"
    /\ UNCHANGED <<min_milliseconds, min_year, agg_idx, yearly, dates_set, first_ts,
                   first_entry, last_ts, last_entry, artist_set, album_set, track_set,
                   artist_tracks, daily_counts, monthly_counts, weekday_counts,
                   hour_counts, play_counted, skip_count, offline_count,
                   track_skip_counts, otd_idx, date_to_tracks, otd, all_data, notAgg>>

TrackStats ==
    /\ pc = "session"
    /\ all_stats' = Update(all_stats,
           calculate_track_stats(all_data, track_set, track_skip_counts))
    /\ pc' = "track"
    /\ UNCHANGED <<min_milliseconds, min_year, agg_idx, accVars, otd_idx,
                   date_to_tracks, otd, all_data, notAgg>>

NextStats ==
    \/ BasicStats
    \/ MilestoneStats
    \/ PatternStats
    \/ SessionStats
    \/ TrackStats

SpecStats == InitStats /\ [][NextStats]_vars

-----------------------------------------------------------------------------
(* calculate_session_stats(play_times, play_counted, skip_count, offline_count) *)

InitSession ==
    /\ pc = "pattern"
    /\ min_milliseconds = MIN_MILLISECONDS
    /\ min_year = <<>>
    /\ agg_idx = 1
    /\ yearly = EmptyDict
    /\ dates_set = {}
    /\ first_ts = <<>>
    /\ first_entry = <<>>
    /\ last_ts = <<>>
    /\ last_entry = <<>>
    /\ artist_set = {}
    /\ album_set = {}
    /\ track_set = {}
    /\ artist_tracks = EmptyDict
    /\ daily_counts = EmptyDict
    /\ monthly_counts = EmptyDict
    /\ weekday_counts = EmptyDict
    /\ hour_counts = EmptyDict
    /\ play_times \in SessionLists
    /\ play_counted = Len(play_times)
    /\ skip_count = 0
    /\ offline_count \in {0, play_counted}
    /\ track_skip_counts = EmptyDict
    /\ otd_idx = 1
    /\ date_to_tracks = <<>>
    /\ otd = <<>>
    /\ all_data = NewYear
    /\ all_stats = EmptyDict
    /\ ValIdle
    /\ LoadIdle
    /\ DedupIdle
    /\ FixIdle
    /\ RunIdle
    /\ MainIdle
    /\ now = NowStart

NextSession == SessionStats

SpecSession == InitSession /\ [][NextSession]_vars

-----------------------------------------------------------------------------
(* calculate_track_stats(all_data, track_set, track_skip_counts) on the plays  *)
(* per artist                                                                  *)

InitTrack ==
    /\ pc = "session"
    /\ \E c \in ArtistCounters : all_data = [NewYear EXCEPT !.artist_counts = c]
    /\ all_stats = EmptyDict
    /\ min_milliseconds = MIN_MILLISECONDS
    /\ min_year = <<>>
    /\ agg_idx = 1
    /\ yearly = EmptyDict
    /\ dates_set = {}
    /\ first_ts = <<>>
    /\ first_entry = <<>>
    /\ last_ts = <<>>
    /\ last_entry = <<>>
    /\ artist_set = {}
    /\ album_set = {}
    /\ track_set = {}
    /\ artist_tracks = EmptyDict
    /\ daily_counts = EmptyDict
    /\ monthly_counts = EmptyDict
    /\ weekday_counts = EmptyDict
    /\ hour_counts = EmptyDict
    /\ play_times = <<>>
    /\ play_counted = 0
    /\ skip_count = 0
    /\ offline_count = 0
    /\ track_skip_counts = EmptyDict
    /\ otd_idx = 1
    /\ date_to_tracks = <<>>
    /\ otd = <<>>
    /\ ValIdle
    /\ LoadIdle
    /\ DedupIdle
    /\ FixIdle
    /\ RunIdle
    /\ MainIdle
    /\ now = NowStart

NextTrack == TrackStats

SpecTrack == InitTrack /\ [][NextTrack]_vars

-----------------------------------------------------------------------------
(* count_plays_from_directory(config, progress_callback).  The tuple          *)
(* process_spotify_data returns has 20 elements and the assignment that takes  *)
(* it has 21 targets, so the statements after it are never reached: the       *)
(* stages behind it have no action here.                                       *)

InitRun ==
    /\ pc = "main"
    /\ input_dir \in RunDirs
    /\ file_idx = 1
    /\ all_entries = <<>>
    /\ progress = <<>>
    /\ error = <<>>
    /\ OthersIdle("load")

\* load_spotify_json_files raises FileNotFoundError; the handler raises it again
RunMissingDir ==
    /\ pc = "main"
    /\ ~input_dir.exists
    /\ progress' = <<"Starting", "Loading data">>
    /\ error' = <<"FileNotFoundError">>
    /\ pc' = "raised"
    /\ UNCHANGED <<valVars, loadVars, dedupVars, now, fixVars, runVars, aggVars>>

\* `if not entries:` the run reports Completed and returns
RunNoEntries ==
    /\ pc = "main"
    /\ input_dir.exists
    /\ load_spotify_data(input_dir, now) = <<>>
    /\ all_entries' = load_spotify_json_files(input_dir.files)
    /\ progress' = <<"Starting", "Loading data", "Completed">>
    /\ pc' = "returned"
    /\ UNCHANGED <<valVars, input_dir, file_idx, dedupVars, now, fixVars, runVars,
                   aggVars, error>>

\* load_spotify_data returned entries
RunLoad ==
    /\ pc = "main"
    /\ input_dir.exists
    /\ load_spotify_data(input_dir, now) # <<>>
    /\ all_entries' = load_spotify_json_files(input_dir.files)
    /\ deduplicated_entries' = check_for_duplicates(all_entries')
    /\ validated_entries' = load_spotify_data(input_dir, now)
    /\ entries' = validated_entries'
    /\ progress' = <<"Starting", "Loading data", "Processing data">>
    /\ pc' = "processing"
    /\ UNCHANGED <<valVars, input_dir, file_idx, unique_entries, duplicates, now,
                   fix_idx, fixed_entries, inconsistencies, runVars, aggVars, error>>

\* process_spotify_data raises; the handler raises it again
RunProcessRaises ==
    /\ pc = "processing"
    /\ process_spotify_data(entries, min_milliseconds, min_year, now).raised
    /\ error' = <<"process_spotify_data">>
    /\ pc' = "raised"
    /\ UNCHANGED <<valVars, loadVars, dedupVars, now, fixVars, runVars, aggVars,
                   progress>>

\* process_spotify_data returns its 20 values; taking them into 21 names raises
\* ValueError before any name is bound; the handler raises it again
RunUnpackRaises ==
    /\ pc = "processing"
    /\ ~process_spotify_data(entries, min_milliseconds, min_year, now).raised
    /\ error' = <<"ValueError">>
    /\ pc' = "raised"
    /\ UNCHANGED <<valVars, loadVars, dedupVars, now, fixVars, runVars, aggVars,
                   progress>>

NextRun ==
    \/ RunMissingDir
    \/ RunNoEntries
    \/ RunLoad
    \/ RunProcessRaises
    \/ RunUnpackRaises

SpecRun == InitRun /\ [][NextRun]_vars

-----------------------------------------------------------------------------
(* calculate_personality_type(all_stats) *)

InitPersonality ==
    /\ pc = "track"
    /\ all_stats \in StatInputs
    /\ min_milliseconds = MIN_MILLISECONDS
    /\ min_year = <<>>
    /\ agg_idx = 1
    /\ yearly = EmptyDict
    /\ dates_set = {}
    /\ first_ts = <<>>
    /\ first_entry = <<>>
    /\ last_ts = <<>>
    /\ last_entry = <<>>
    /\ artist_set = {}
    /\ album_set = {}
    /\ track_set = {}
    /\ artist_tracks = EmptyDict
    /\ daily_counts = EmptyDict
    /\ monthly_counts = EmptyDict
    /\ weekday_counts = EmptyDict
    /\ hour_counts = EmptyDict
    /\ play_times = <<>>
    /\ play_counted = 0
    /\ skip_count = 0
    /\ offline_count = 0
    /\ track_skip_counts = EmptyDict
    /\ otd_idx = 1
    /\ date_to_tracks = <<>>
    /\ otd = <<>>
    /\ all_data = NewYear
    /\ ValIdle
    /\ LoadIdle
    /\ DedupIdle
    /\ FixIdle
    /\ RunIdle
    /\ MainIdle
    /\ now = NowStart

\* `all_stats.update(personality_stats)`
PersonalityType ==
    /\ pc = "track"
    /\ all_stats' = Update(all_stats, calculate_personality_type(all_stats))
    /\ pc' = "personality"
    /\ UNCHANGED <<min_milliseconds, min_year, agg_idx, accVars, otd_idx,
                   date_to_tracks, otd, all_data, notAgg>>

NextPersonality == PersonalityType

SpecPersonality == InitPersonality /\ [][NextPersonality]_vars

-----------------------------------------------------------------------------
(* C1 *)

\* the per-record checks as the claim lists them
PassesChecks(e) ==
    /\ e.dict
    /\ e.ts.k # "absent"
    /\ e.ms.k # "absent"
    /\ e.ts.k \in {"naive", "aware"}
    /\ e.ms.k = "num"
    /\ e.ms.v >= 0

NumPassing(d) == Cardinality({i \in 1..Len(d) : PassesChecks(d[i])})

\* ceil(0.7 N)
Ceil70(n) == (7 * n + 9) \div 10

-----------------------------------------------------------------------------
(* C2 *)

\* the identity of a record: its timestamp, track name, artist name and play
\* duration, a record without a track or artist name going under the name the
\* pipeline gives it
Identity(e) ==
    <<e.ts, GetName(e.track, "Unknown Track"),
      GetName(e.artist, "Unknown Artist"), e.ms>>

\* no earlier record of the list has the identity of record i
FirstOfIdentity(es, i) ==
    /\ es[i].dict
    /\ \A j \in 1..(i - 1) : es[j].dict => Identity(es[j]) # Identity(es[i])

\* the records that are the first of their identity, in input order
RECURSIVE FirstsFrom(_, _)
FirstsFrom(es, i) ==
    IF i > Len(es) THEN <<>>
    ELSE (IF FirstOfIdentity(es, i) THEN <<es[i]>> ELSE <<>>) \o FirstsFrom(es, i + 1)

IsDict(e) == e.dict

-----------------------------------------------------------------------------
(* C3 *)

\* C3: a second run of deduplication and consistency repair on the output of
\* the first returns that output unchanged and detects no duplicate.
C3_Idempotent ==
    (pc = "ingested" /\ run = 2) =>
        /\ validated_entries = first_output
        /\ duplicates = 0

-----------------------------------------------------------------------------
(* C4 *)

\* the batch passes validation: it is not empty and at least 70% of its
\* records pass the per-record checks
BatchPasses(d) == Len(d) > 0 /\ 10 * NumPassing(d) >= 7 * Len(d)

\* the records of the passing sources among fs, source after source
RECURSIVE AcceptedConcat(_)
AcceptedConcat(fs) ==
    IF fs = <<>> THEN <<>>
    ELSE (IF Head(fs).k = "list" /\ BatchPasses(Head(fs).d) THEN Head(fs).d ELSE <<>>)
             \o AcceptedConcat(Tail(fs))

\* C4: the loader yields no record of a source that fails validation or
\* cannot be parsed, yields every record of a passing source in the source's
\* order, and goes on to the remaining sources after a failing one.
C4_WholeBatches ==
    input_dir.exists =>
        /\ pc \in {"load", "loaded"}
        /\ file_idx <= Len(input_dir.files) + 1
        /\ all_entries = AcceptedConcat(SubSeq(input_dir.files, 1, file_idx - 1))
        /\ pc = "loaded" => all_entries = AcceptedConcat(input_dir.files)

\* a source that fails was followed by a passing source holding a record that
\* fails the per-record checks, and that record was yielded with the others
C4_Witness ==
    /\ pc = "loaded"
    /\ \E i, j \in 1..Len(input_dir.files) :
          /\ i < j
          /\ ~(input_dir.files[i].k = "list" /\ BatchPasses(input_dir.files[i].d))
          /\ input_dir.files[j].k = "list"
          /\ BatchPasses(input_dir.files[j].d)
          /\ \E k \in 1..Len(input_dir.files[j].d) :
                ~PassesChecks(input_dir.files[j].d[k])
    /\ \E k \in 1..Len(all_entries) : ~PassesChecks(all_entries[k])

-----------------------------------------------------------------------------
(* C5 *)

\* C5: a record whose identity key cannot be built counts as a non-duplicate
\* and is still in the deduplicated output, so the output is as long as the
\* input less the duplicates reported.
C5_KeyErrorKept ==
    pc = "deduped" =>
        /\ Len(deduplicated_entries) = Len(entries) - duplicates
        /\ \A i \in 1..Len(entries) :
              ~entries[i].dict =>
                  \E j \in 1..Len(deduplicated_entries) :
                      deduplicated_entries[j] = entries[i]

-----------------------------------------------------------------------------
(* C6 *)

\* the transition is one iteration of the repair loop
FixesOne == pc = "fix" /\ fix_idx' = fix_idx + 1

\* C6: a record whose timestamp parses, with or without the Z, to a point
\* strictly after now leaves the repair with its timestamp rewritten to now and
\* is counted once as a future-timestamp fix; a record at or before now keeps
\* its timestamp.
C6_FutureRewritten ==
    [][FixesOne =>
        LET e == deduplicated_entries[fix_idx]
            f == fixed_entries'[fix_idx]
        IN  /\ (e.dict /\ Parses(e.ts) /\ e.ts.t > now) =>
                  /\ Parses(f.ts) /\ f.ts.t = now
                  /\ inconsistencies'.future_timestamp =
                         inconsistencies.future_timestamp + 1
            /\ (e.dict /\ Parses(e.ts) /\ e.ts.t <= now) =>
                  /\ f.ts = e.ts
                  /\ inconsistencies'.future_timestamp =
                         inconsistencies.future_timestamp
    ]_vars

-----------------------------------------------------------------------------
(* C7 *)

\* every order of the five steps
Orders ==
    InsertAll(InsertAll(InsertAll(InsertAll({<<"artist">>}, "track"), "album"),
                        "cap"), "future")

\* the orders with the artist fill before the track fill and the album fill
ArtistFirstOrders ==
    InsertAll(InsertAll({<<"artist", "track", "album">>,
                         <<"artist", "album", "track">>}, "cap"), "future")

-----------------------------------------------------------------------------
(* C8 *)

\* C8: after perform_data_consistency_checks every play duration is at most
\* 86 400 000 ms: a longer one is returned as exactly the cap and counted once,
\* one at or below the cap is kept, and the output has the length and order of
\* the input.
C8_DurationCapped ==
    pc = "ingested" =>
        /\ Len(validated_entries) = Len(deduplicated_entries)
        /\ \A i \in 1..Len(validated_entries) :
              LET e == deduplicated_entries[i]
                  f == validated_entries[i]
              IN  /\ (e.ms.k = "num" /\ e.ms.v > Cap) => f.ms = Ms(Cap)
                  /\ (e.ms.k = "num" /\ e.ms.v <= Cap) => f.ms = e.ms
                  /\ f.ms.k = "num" => f.ms.v <= Cap
                  /\ f.track.k = "str" /\ e.track.k = "str" => f.track = e.track
        /\ inconsistencies.excessive_playtime =
             Cardinality({i \in 1..Len(deduplicated_entries) :
                            /\ deduplicated_entries[i].ms.k = "num"
                            /\ deduplicated_entries[i].ms.v > Cap})

-----------------------------------------------------------------------------
(* C9 *)

\* the entry is not a record without artist name
NamesArtist(e) == ~(e.dict /\ ~Truthy(e.artist))

\* C9: the outputs of process_spotify_data are those of a run on the list
\* without its records that have no artist name: the yearly buckets, the
\* dates, the first and last pointers, the counters, the skip and offline
\* tallies, the entity sets and the on-this-day index.
C9_NoArtistExcluded ==
    pc = "aggregated" =>
        LET ref == process_spotify_data(SelectSeq(entries, NamesArtist),
                                        min_milliseconds, min_year, now)
        IN  /\ ~ref.raised
            /\ Acc = ref.acc
            /\ otd = ref.otd

-----------------------------------------------------------------------------
(* C10 *)

\* a minimum year is configured and the timestamp of the record parses to a
\* year below it
YearBelow(e) ==
    /\ min_year # <<>>
    /\ e.dict
    /\ e.ts.k \in {"naive", "aware"}
    /\ Year(e.ts.t) < min_year[1]

NotYearBelow(e) == ~YearBelow(e)

\* the years of the timestamps of the list
YearsOf(es) == { Year(es[i].ts.t) : i \in 1..Len(es) }

\* C10: an iteration of either loop of process_spotify_data on a record whose
\* year is below the configured minimum changes no yearly bucket, date,
\* pointer, counter, tally, set or on-this-day entry; what is returned is what
\* a run on the list without these records returns, with no bucket of a year
\* below the minimum; and for plays of 2019, 2020, 2021 and 2022 with the
\* minimum 2021 the buckets are exactly those of 2021 and 2022.
C10_MinYearFilter ==
    [][/\ (pc = "agg" /\ agg_idx' = agg_idx + 1 /\ YearBelow(entries[agg_idx]))
            => UNCHANGED <<accVars, date_to_tracks, otd>>
       /\ (pc = "otd" /\ otd_idx <= Len(entries) /\ YearBelow(entries[otd_idx]))
            => UNCHANGED <<accVars, date_to_tracks, otd>>
       /\ pc' = "aggregated" =>
            LET ref == process_spotify_data(SelectSeq(entries, NotYearBelow),
                                            min_milliseconds, min_year, now)
            IN  /\ ~ref.raised
                /\ Acc' = ref.acc
                /\ otd' = ref.otd
                /\ min_year # <<>> => \A y \in DOMAIN yearly' : y >= min_year[1]
       /\ (/\ pc' = "aggregated"
           /\ min_year = <<2021>>
           /\ \A i \in 1..Len(entries) :
                 ReachesBody(entries[i]) /\ Parses(entries[i].ts)
           /\ YearsOf(entries) = 2019..2022)
            => DOMAIN yearly' = {2021, 2022}
    ]_vars

\* plays of 2019, 2020, 2021 and 2022 have been aggregated with the minimum
\* year 2021: two buckets, two plays counted
C10_Witness ==
    /\ pc = "aggregated"
    /\ min_year = <<2021>>
    /\ Len(entries) = 4
    /\ YearsOf(entries) = 2019..2022
    /\ DOMAIN yearly = {2021, 2022}
    /\ play_counted = 2
    /\ Cardinality(dates_set) = 2
    /\ Len(otd) = 1

-----------------------------------------------------------------------------
(* C11 *)

\* the transition is one iteration of the first loop of process_spotify_data
AggregatesOne == pc = "agg" /\ agg_idx' = agg_idx + 1

\* the name process_entry counts the skips of the entry's track under
SkipKey(e) == NameStr(GetName(e.track, "Unknown Track")) \o " - " \o e.artist.s

\* the count a Counter holds for a key
CountOf(ctr, k) == IF k \in DOMAIN ctr THEN ctr[k] ELSE 0

\* C11: an iteration of the aggregation loop on a record that has an artist
\* name, a numeric play duration of any size, a timestamp that parses to a
\* year the filter lets through and its skipped flag set adds exactly one to
\* skip_count and to the track's entry of track_skip_counts.
C11_SkipAnyDuration ==
    [][AggregatesOne =>
        LET e == entries[agg_idx] IN
        (/\ e.dict
         /\ e.artist.k = "str" /\ e.artist.s # ""
         /\ e.ms.k = "num"
         /\ e.ts.k \in {"naive", "aware"}
         /\ ~YearBelow(e)
         /\ e.skipped)
            => /\ skip_count' = skip_count + 1
               /\ CountOf(track_skip_counts', SkipKey(e))
                    = CountOf(track_skip_counts, SkipKey(e)) + 1
    ]_vars

-----------------------------------------------------------------------------
(* C12 *)

\* a record that is sound but for a timestamp string that does not parse
BadTimestampOnly(e) ==
    /\ e.dict
    /\ e.ms.k = "num" /\ e.ms.v > 0
    /\ e.ts.k = "bad"
    /\ e.artist.k = "str" /\ e.artist.s # ""

\* nothing is wrong with the record, or only that its timestamp does not parse
SoundOrBadTimestamp(e) ==
    /\ e.dict
    /\ e.ms.k = "num" /\ e.ms.v >= 0
    /\ e.ts.k \in {"naive", "aware", "bad"}

\* the play time the yearly buckets hold for an artist in a year
ArtistTime(yy, year, artist) ==
    IF year \in DOMAIN yy /\ artist \in DOMAIN yy[year].artist_time
    THEN yy[year].artist_time[artist] ELSE 0

\* C12: a record whose timestamp does not parse is aggregated under the
\* current time: the iteration of the aggregation loop on it adds today to
\* the dates, its duration to its artist's time in the bucket of the current
\* year and, when the duration is over the threshold, one to play_counted;
\* and process_spotify_data does not raise on a list in which nothing but
\* such timestamps is wrong.
C12_BadTimestampLocal ==
    [][/\ (AggregatesOne /\ BadTimestampOnly(entries[agg_idx])) =>
            LET e == entries[agg_idx] IN
            /\ DateOf(now) \in dates_set'
            /\ ArtistTime(yearly', Year(now), e.artist.s)
                 = ArtistTime(yearly, Year(now), e.artist.s) + e.ms.v
            /\ e.ms.v > min_milliseconds => play_counted' = play_counted + 1
       /\ (\A i \in 1..Len(entries) : SoundOrBadTimestamp(entries[i]))
            => pc' # "raised"
    ]_vars

-----------------------------------------------------------------------------
(* C13 *)

TallyKeys ==
    {"artist_counts", "artist_time", "track_counts", "track_time", "album_counts",
     "album_time"}

\* the sum of one name's value over the yearly buckets
RECURSIVE SumOverYears(_, _, _, _)
SumOverYears(yy, years, key, name) ==
    IF years = {} THEN 0
    ELSE LET y == CHOOSE y \in years : TRUE IN
         Get(yy[y][key], name, 0) + SumOverYears(yy, years \ {y}, key, name)

NamesOf(yy, key) == UNION { DOMAIN yy[y][key] : y \in DOMAIN yy }

\* C13: when aggregate_yearly_data has returned, each of the six all-time maps
\* holds exactly the names of the yearly buckets, the value of every name is
\* the sum of its values over all yearly buckets, and folding the years in any
\* other order gives the same maps
C13_AggregationAdditive ==
    pc = "merged" =>
        /\ \A key \in TallyKeys :
            /\ DOMAIN all_data[key] = NamesOf(yearly, key)
            /\ \A name \in NamesOf(yearly, key) :
                all_data[key][name] = SumOverYears(yearly, DOMAIN yearly, key, name)
        /\ \A order \in KeyOrders(DOMAIN yearly) :
            aggregate_yearly_data(yearly, order) = all_data

\* an artist played in at least two years: the all-time count is above every
\* yearly count
C13_Witness ==
    /\ pc = "merged"
    /\ Cardinality(DOMAIN yearly) >= 2
    /\ \E name \in DOMAIN all_data.artist_counts :
        /\ Cardinality({y \in DOMAIN yearly : name \in DOMAIN yearly[y].artist_counts}) >= 2
        /\ \A y \in DOMAIN yearly :
            Get(yearly[y].artist_counts, name, 0) < all_data.artist_counts[name]
        /\ all_data.artist_time[name] > 30000

-----------------------------------------------------------------------------
(* C14 *)

\* the days that had at least n plays counted
DaysWithAtLeast(daily, n) == {d \in DOMAIN daily : daily[d] >= n}

\* the largest E such that at least E days each had at least E plays
LargestE(daily) ==
    LET es == {E \in 0..Cardinality(DOMAIN daily) :
                  Cardinality(DaysWithAtLeast(daily, E)) >= E}
    IN CHOOSE E \in es : \A F \in es : F <= E

\* C14: the Eddington number calculate_milestone_stats returns is the largest
\* E such that at least E days each had at least E plays counted (5 for five
\* days of 5 plays, 1 for three days of 1 play, 0 for no days)
C14_Eddington ==
    pc \in {"milestone", "pattern"} => all_stats.edd = LargestE(daily_counts)

-----------------------------------------------------------------------------
(* C15 *)

\* the minutes at which there was a play
PlayMinutes == {play_times[i].t : i \in 1..Len(play_times)}

\* a play that no earlier play precedes by SessionGap minutes or less
StartsSession(m) == \A u \in PlayMinutes : u < m => m - u > SessionGap

SessionStarts == {m \in PlayMinutes : StartsSession(m)}

\* the last play of the run of plays that m starts
SessionEnd(m) ==
    LET plays == {u \in PlayMinutes :
                     u >= m /\ \A s \in SessionStarts : ~(m < s /\ s <= u)}
    IN CHOOSE u \in plays : \A v \in plays : v <= u

-----------------------------------------------------------------------------
(* C16 *)

\* the length of the longest run of consecutive dates in a set of dates
LongestRun(dates) ==
    LET runs == {n \in 0..Cardinality(dates) :
                    n = 0 \/ \E d \in dates : \A i \in 0..n - 1 : d + i \in dates}
    IN CHOOSE n \in runs : \A m \in runs : m <= n

\* C16: max_streak is the length of the longest run of consecutive dates that
\* each had at least one play above the duration threshold, and streak_start
\* to streak_end is such a run of max_streak dates
C16_LongestStreak ==
    pc = "pattern" =>
        /\ all_stats.max_streak = LongestRun(DOMAIN daily_counts)
        /\ all_stats.max_streak > 0 =>
            /\ all_stats.streak_start # <<>>
            /\ all_stats.streak_end # <<>>
            /\ all_stats.streak_end[1] - all_stats.streak_start[1] + 1
                   = all_stats.max_streak
            /\ \A d \in all_stats.streak_start[1]..all_stats.streak_end[1] :
                d \in DOMAIN daily_counts

-----------------------------------------------------------------------------
(* C17 *)

\* C17: with at least one play counted, ratio_pct is the plays of Saturday
\* and Sunday divided by all plays counted, times 100
C17_WeekendShare ==
    (pc = "pattern" /\ SumValues(weekday_counts) > 0) =>
        all_stats.ratio_pct.num * SumValues(weekday_counts)
            = (Get(weekday_counts, 5, 0) + Get(weekday_counts, 6, 0)) * 100
                  * all_stats.ratio_pct.den

-----------------------------------------------------------------------------
(* C18 *)

\* C18: when at least one source loaded a non-empty list of records, no error
\* propagates out of count_plays_from_directory
C18_OnlyFatalAborts == all_entries # <<>> => pc # "raised"

-----------------------------------------------------------------------------
(* C19 *)

\* the directory is missing, holds no file, or no file yields a record
NoData == ~input_dir.exists \/ load_spotify_json_files(input_dir.files) = <<>>

\* C19: a run on a missing directory, on a directory without source or on
\* sources that yield no record ends with an error raised to the caller, and
\* does not report the stage Completed
C19_NoDataRaises ==
    (NoData /\ pc \in {"returned", "raised"}) =>
        /\ pc = "raised"
        /\ error # <<>>
        /\ \A i \in 1..Len(progress) : progress[i] # "Completed"

-----------------------------------------------------------------------------
(* C20 *)

TypeSet == {PersonalityTypes[i] : i \in 1..Len(PersonalityTypes)}

RECURSIVE SumOver(_, _)
SumOver(f, keys) ==
    IF keys = {} THEN 0
    ELSE LET k == CHOOSE k \in keys : TRUE IN f[k] + SumOver(f, keys \ {k})

\* C20: each of the twelve percentages is score / (sum of the scores) x 100,
\* and every category gets 100/12 when the sum of the scores is zero; the
\* twelve percentages add up to 100 within 0.01
C20_Percentages ==
    pc = "personality" =>
        LET scores == all_stats.personality_scores
            pct == all_stats.personality_percentages
            total == SumOver(scores, TypeSet)
            den == pct["Explorer"].den
        IN /\ DOMAIN scores = TypeSet
           /\ DOMAIN pct = TypeSet
           /\ total > 0 =>
                \A ptype \in TypeSet :
                    pct[ptype].num * total = scores[ptype] * 100 * pct[ptype].den
           /\ total = 0 =>
                \A ptype \in TypeSet : pct[ptype].num * 12 = 100 * pct[ptype].den
           /\ \A ptype \in TypeSet : pct[ptype].den = den
           /\ LET nums == SumOver([ptype \in TypeSet |-> pct[ptype].num], TypeSet)
              IN /\ (nums - 100 * den) * 100 <= den
                 /\ (100 * den - nums) * 100 <= den

\* scores that differ, a type without score and a type with the top score
C20_Witness ==
    /\ pc = "personality"
    /\ SumOver(all_stats.personality_scores, TypeSet) > 0
    /\ \E ptype \in TypeSet : all_stats.personality_percentages[ptype].num = 0
    /\ \E ptype \in TypeSet :
        /\ all_stats.personality_type = ptype
        /\ all_stats.personality_percentages[ptype].num > 0
        /\ \A q \in TypeSet :
            all_stats.personality_scores[q] <= all_stats.personality_scores[ptype]

-----------------------------------------------------------------------------
(* C21 *)

\* the place of a type in the order of definition
TypeIndex(ptype) == CHOOSE i \in 1..Len(PersonalityTypes) : PersonalityTypes[i] = ptype

\* C21: the personality type reported has the highest of the twelve scores,
\* is the first in the order of definition among the types with that score,
\* and has the highest percentage
C21_FirstMaximum ==
    pc = "personality" =>
        LET scores == all_stats.personality_scores
            pct == all_stats.personality_percentages
            top == all_stats.personality_type
        IN /\ top \in TypeSet
           /\ \A q \in TypeSet : scores[q] <= scores[top]
           /\ \A q \in TypeSet :
                scores[q] = scores[top] => TypeIndex(top) <= TypeIndex(q)
           /\ \A q \in TypeSet : FLe(pct[q], pct[top])

\* two types share the top score and the earlier one is reported
C21_Witness ==
    /\ pc = "personality"
    /\ \E q \in TypeSet :
        /\ q # all_stats.personality_type
        /\ all_stats.personality_scores[q]
             = all_stats.personality_scores[all_stats.personality_type]
        /\ TypeIndex(all_stats.personality_type) < TypeIndex(q)
        /\ \A r \in TypeSet :
            all_stats.personality_scores[r] <= all_stats.personality_scores[q]

-----------------------------------------------------------------------------
(* C30 *)

\* the score of the unique-track ratio in its bands, counted upwards or downwards
UniqueBand(stats, reverse) ==
    get_threshold_score(stats.unique_ratio_pct, <<N(30), N(50), N(70)>>, reverse)

\* C30: the twelve scores add up to more than zero, because the unique-track
\* ratio scores in its bands upwards or downwards; the type reported has a
\* score above zero and no percentage is the even share of a zero total
C30_TotalPositive ==
    pc = "personality" =>
        LET scores == all_stats.personality_scores
            pct == all_stats.personality_percentages
            total == SumOver(scores, TypeSet)
        IN /\ UniqueBand(all_stats, FALSE) + UniqueBand(all_stats, TRUE) > 0
           /\ scores["Explorer"] >= 17 * UniqueBand(all_stats, FALSE)
           /\ scores["Loyalist"] >= 12 * UniqueBand(all_stats, TRUE)
           /\ total > 0
           /\ scores[all_stats.personality_type] > 0
           /\ \A ptype \in TypeSet : pct[ptype] = Percentage(scores[ptype], total)

\* the statistics of an empty dict: the ratio is below every band, the
\* downward score alone keeps the total above zero
C30_Witness ==
    /\ pc = "personality"
    /\ all_stats.total_plays = 0
    /\ all_stats.unique_ratio_pct = N(0)
    /\ UniqueBand(all_stats, FALSE) = 0
    /\ UniqueBand(all_stats, TRUE) = 3
    /\ all_stats.personality_scores["Explorer"] <= 51
    /\ SumOver(all_stats.personality_scores, TypeSet) > 0

-----------------------------------------------------------------------------
(* C24 *)

\* the datetime process_entry takes for the record
TimeOf(e) == IF Parses(e.ts) THEN ParseTs(e.ts) ELSE Dt(FALSE, now)

\* process_entry went through its body on the record without an error: the
\* record reached the body, its datetime could be compared with the pointers
\* and its artist could be put into the sets
Completed(e) ==
    /\ ReachesBody(e)
    /\ ~YearFilterSkips(e, min_year)
    /\ first_ts # <<>> /\ TimeOf(e).aware = first_ts[1].aware
    /\ e.artist.k # "list"

\* the records aggregated so far, by their place in the list
AggregatedSoFar == { i \in 1..(agg_idx - 1) : Completed(entries[i]) }

\* C24: first_ts is the lowest and last_ts the highest timestamp of the
\* records aggregated so far, first_entry and last_entry are the earliest
\* processed records that carry these timestamps, and the four pointers are
\* unset exactly when no record has been aggregated
C24_FirstLast ==
    LET agg == AggregatedSoFar IN
    /\ agg = {} <=> first_ts = <<>>
    /\ first_ts = <<>> <=> first_entry = <<>>
    /\ first_ts = <<>> <=> last_ts = <<>>
    /\ last_ts = <<>> <=> last_entry = <<>>
    /\ agg # {} =>
        /\ \A k \in agg :
            /\ Parses(entries[k].ts)
            /\ first_ts[1].t <= ParseTs(entries[k].ts).t
            /\ ParseTs(entries[k].ts).t <= last_ts[1].t
        /\ \E i \in agg :
            /\ first_entry = <<entries[i]>>
            /\ ParseTs(entries[i].ts) = first_ts[1]
            /\ \A k \in agg : k < i => ParseTs(entries[k].ts).t > first_ts[1].t
        /\ \E j \in agg :
            /\ last_entry = <<entries[j]>>
            /\ ParseTs(entries[j].ts) = last_ts[1]
            /\ \A k \in agg : k < j => ParseTs(entries[k].ts).t < last_ts[1].t

-----------------------------------------------------------------------------
(* C25 *)

\* the sum of one tally over every name and every yearly bucket
RECURSIVE YearlyTotal(_, _, _)
YearlyTotal(yy, years, key) ==
    IF years = {} THEN 0
    ELSE LET y == CHOOSE y \in years : TRUE IN
         SumValues(yy[y][key]) + YearlyTotal(yy, years \ {y}, key)

\* C25: the plays counted are as many as the play times listed, as the daily,
\* the monthly, the weekday and the hour counters add up to, and as the
\* artist, the track and the album counts of all yearly buckets add up to; the
\* offline plays are not more than the plays counted
C25_CountersAgree ==
    /\ play_counted = Len(play_times)
    /\ play_counted = SumValues(daily_counts)
    /\ play_counted = SumValues(monthly_counts)
    /\ play_counted = SumValues(weekday_counts)
    /\ play_counted = SumValues(hour_counts)
    /\ play_counted = YearlyTotal(yearly, DOMAIN yearly, "artist_counts")
    /\ play_counted = YearlyTotal(yearly, DOMAIN yearly, "track_counts")
    /\ play_counted = YearlyTotal(yearly, DOMAIN yearly, "album_counts")
    /\ offline_count <= play_counted

-----------------------------------------------------------------------------
(* C26 *)

\* process_entry ends in its handler on the record: the value is no dict,
\* its ms_played is no number, its datetime cannot be compared with first_ts,
\* or its artist cannot be put into a set
FailsInside(e) ==
    \/ ~e.dict
    \/ e.ms.k = "nonnum"
    \/ /\ ReachesBody(e)
       /\ \/ first_ts # <<>> /\ TimeOf(e).aware # first_ts[1].aware
          \/ e.artist.k = "list"

\* C26: an iteration of the first loop on a record on which process_entry
\* fails inside changes none of the accumulators: no date is added to
\* dates_set and no yearly bucket is created
C26_AllOrNothing ==
    [][(/\ pc = "agg"
        /\ agg_idx' = agg_idx + 1
        /\ ~YearFilterSkips(entries[agg_idx], min_year)
        /\ FailsInside(entries[agg_idx]))
            => UNCHANGED accVars
    ]_vars

-----------------------------------------------------------------------------
(* C27 *)

\* C27: every record load_spotify_data returns passes the per-record checks
\* of the validator: it is an object, has ts and ms_played, its timestamp
\* parses and its play duration is a number that is not negative
C27_OnlyValidRecords ==
    pc = "processing" =>
        \A i \in 1..Len(validated_entries) : EntryValid(validated_entries[i])

-----------------------------------------------------------------------------
(* C28 *)

\* the identity of a record with an absent track or artist as a value of its own
StrictIdentity(e) == <<e.ts, e.track, e.artist, e.ms>>

\* C28: a record that differs from every earlier record in its timestamp,
\* track name, artist name or play duration is in the list
\* check_for_duplicates returns
C28_NoCollapse ==
    pc = "deduped" =>
        \A i \in 1..Len(entries) :
            (/\ entries[i].dict
             /\ \A j \in 1..(i - 1) :
                    entries[j].dict => StrictIdentity(entries[j]) # StrictIdentity(entries[i]))
                => \E k \in 1..Len(deduplicated_entries) :
                       deduplicated_entries[k] = entries[i]

-----------------------------------------------------------------------------
(* C22 *)

\* twice the sum of position x count over the counts in ascending order: the
\* artists that share the count c[k] fill the positions Below + 1 .. Below +
\* Same, so each of them weighs twice the mean of these, 2 Below + Same + 1
TwiceWeighted(c) ==
    SumOver([k \in DOMAIN c |->
                c[k] * (2 * Cardinality({j \in DOMAIN c : c[j] < c[k]})
                        + Cardinality({j \in DOMAIN c : c[j] = c[k]}) + 1)],
            DOMAIN c)

\* one artist has every play and there is at least one play
OneHoldsAll(c) ==
    \E k \in DOMAIN c : c[k] > 0 /\ \A j \in DOMAIN c \ {k} : c[j] = 0

\* C22: the Gini coefficient calculate_track_stats reports is
\* 2 * sum((i + 1) * v_i) / (n * sum(v_i)) - (n + 1) / n over the counts per
\* artist in ascending order; it is 0 when all counts are equal, (n - 1) / n
\* when one of the n artists holds every play, at least 0 and below 1 for
\* every input, and 0 when there is no artist or every count is zero
C22_Gini ==
    pc = "track" =>
        LET c == all_data.artist_counts
            n == Cardinality(DOMAIN c)
            total == SumValues(c)
            g == all_stats.gini
        IN /\ g.den > 0
           /\ (n > 0 /\ total > 0) =>
                  g.num * (n * total) = (TwiceWeighted(c) - (n + 1) * total) * g.den
           /\ (\A j, k \in DOMAIN c : c[j] = c[k]) => g.num = 0
           /\ OneHoldsAll(c) => g.num * n = (n - 1) * g.den
           /\ 0 <= g.num
           /\ g.num < g.den
           /\ (n = 0 \/ total = 0) => g.num = 0

\* one of three artists holds every play: the coefficient is 2/3
C22_Witness ==
    /\ pc = "track"
    /\ Cardinality(DOMAIN all_data.artist_counts) = 3
    /\ OneHoldsAll(all_data.artist_counts)
    /\ all_stats.gini.num * 3 = 2 * all_stats.gini.den

-----------------------------------------------------------------------------
(* C23 *)

\* C23: the calculators of calculate_all_stats only read the accumulators:
\* a step of calculate_all_stats leaves the yearly buckets, the sets, the
\* counters, the ordered list of play times and the merged tallies as they
\* were, element for element and in the same order
C23_ReadOnly ==
    [][pc' \in {"basic", "milestone", "pattern", "session", "track", "personality"}
           => UNCHANGED <<accVars, all_data>>]_vars

-----------------------------------------------------------------------------
(* C29 *)

\* a fraction with a positive denominator lies between 0 and 100
InPercentRange(f) == 0 <= f.num /\ f.num <= 100 * f.den

\* C29: for the accumulators of any sequence of aggregated records, the
\* share of days with a play, the skip rate and the ratio of unique tracks
\* to plays that calculate_all_stats reports are each between 0 and 100
C29_PercentagesInRange ==
    pc = "track" =>
        /\ InPercentRange(all_stats.pct_days)
        /\ InPercentRange(all_stats.skip_rate_pct)
        /\ InPercentRange(all_stats.unique_ratio_pct)

====
